---- MODULE Spec2Model ----
(***************************************************************************)
(* One invocation of StableDiffusionLongPromptWeightingPipeline.__call__   *)
(* (src/core/inference/pytorch/pipeline.py) as a state machine, together   *)
(* with the /interrupt route of src/api/routes/general.py that sets the    *)
(* flag the cancellation predicate reads.                                  *)
(*                                                                         *)
(* Numbers with a fractional part are kept in tenths: strength 8 is 0.8,   *)
(* guidance_scale 75 is 7.5, self_attention_scale 10 is 1.0.               *)
(* Tensors are kept by shape and provenance only: a latent is its batch    *)
(* dimension and the number of steps applied to it (ver).                  *)
(***************************************************************************)
EXTENDS Integers, Sequences, FiniteSets, TLC

VARIABLES
    args,            \* the arguments of __call__ and the pipeline's configuration
    pc,              \* position of the invocation in __call__
    interrupt,       \* shared.interrupt, what is_cancelled_callback reads
    ctxHeld,         \* the inference context is entered and not yet exited
    ctxExits,        \* number of times the inference context was exited
    selfUnet,        \* self.unet: "own" or the context's version "inf"
    selfVae,         \* self.vae
    guess_mode,      \* the local guess_mode after line 336
    embBatch,        \* batch dimension of text_embeddings
    timesteps,       \* the schedule returned by get_timesteps
    num_inference_steps, \* the local rebound at line 401
    latents,         \* the working latent [batch, ver]
    controlnet_keep, \* the keep-weight list (tenths)
    i,               \* the closure variable i read by do_denoise; -1 is unbound
    loopIdx,         \* index of the next step of the loop that drives do_denoise
    sagProcessor,    \* the attention-storing processor is installed on the unet
    hookRegistered,  \* the get_map_size forward hook is registered
    samplerGiven,    \* keyword arguments handed to scheduler.do_inference
    trace,           \* collaborator calls and callbacks, in the order made
    result,          \* what the invocation returned
    error,           \* what the invocation raised ("" when nothing)
    content,         \* what the working latent holds, by mask value of the position
    schedulerTimesteps, \* self.scheduler.timesteps, kept on the pipeline object
    run,             \* 1 in the first invocation on the object, 2 in the second
    first,           \* what the first invocation did and left, once it has ended
    embLayout,       \* the blocks of text_embeddings along the batch, in order
    noise_pred_term, \* the prediction the last do_denoise formed, as a term
    enable_shutdown, \* config.api.enable_shutdown
    uvicorn_server,  \* shared.uvicorn_server: whether it exists, force_exit, shut down
    uvicorn_loop,    \* shared.uvicorn_loop: whether it exists, stopped
    asyncio_tasks,   \* shared.asyncio_tasks: the state of each registered task
    jobs,            \* gpu.queue.jobs
    themes,          \* the stems of data/themes/*.json
    notifications,   \* what websocket_manager.broadcast was given, in order
    shutdownPc,      \* where the handler of POST /shutdown is suspended, if it is
    effects,         \* what the shutdown handler in flight, or the last one, has done
    shutdowns,       \* number of POST /shutdown requests taken
    exited,          \* sys.exit was called
    response         \* what the last request handled returned or raised

\* The state the routes of api/routes/general.py work on, the flag apart
routesVars == <<enable_shutdown, uvicorn_server, uvicorn_loop, asyncio_tasks, jobs,
                themes, notifications, shutdownPc, effects, shutdowns, exited,
                response>>

vars == <<args, pc, interrupt, ctxHeld, ctxExits, selfUnet, selfVae, guess_mode,
          embBatch, timesteps, num_inference_steps, latents, controlnet_keep, i,
          loopIdx, sagProcessor, hookRegistered, samplerGiven, trace, result, error,
          content, schedulerTimesteps, run, first, embLayout, noise_pred_term,
          routesVars>>

----------------------------------------------------------------------------
(* Bounds of the model *)

MaxSteps == 3

MaxCallbackSteps == 2

MaxBatch == 2

MaxImagesPerPrompt == 2

MaxScheduleSteps == 50

MaxTasks == 2

MaxJobs == 2

MaxThemes == 2

MaxShutdowns == 2

----------------------------------------------------------------------------
(* Helpers *)

Min(x, y) == IF x <= y THEN x ELSE y

\* Python's round() of n/10: to the nearest integer, a tie to the even one.
Round10(n) ==
    LET q == n \div 10
        r == n % 10
    IN  IF r < 5 THEN q
        ELSE IF r > 5 THEN q + 1
        ELSE IF q % 2 = 0 THEN q ELSE q + 1

Ev(op, step, t, batch, cond, x) ==
    [op |-> op, step |-> step, t |-> t, batch |-> batch, cond |-> cond, x |-> x]

NoLatent == [batch |-> 0, ver |-> 0]

\* No prediction formed yet
NoPred ==
    [base |-> "", scale |-> 0, plus |-> "", minus |-> "",
     sag_scale |-> 0, sag_plus |-> "", sag_minus |-> ""]

\* No request handled yet
NoResponse == [route |-> "", message |-> "", jobs |-> <<>>, files |-> <<>>, error |-> ""]

\* return {"message": m} of the handler of `route`
Message(route, m) == [NoResponse EXCEPT !.route = route, !.message = m]

\* The content of a latent: the evolving content x is the output of the steps
\* `steps` applied to a latent initialised from `origin`; `blended` says that
\* known-region content was part of a latent a step was applied to; `at0` is what
\* the positions with mask 0 hold: x itself, or the known-region latent noised to
\* a timestep (0: the clean one)
NoContent == [origin |-> "none", steps |-> <<>>, blended |-> FALSE, at0 |-> <<"x", 0>>]

NoneResult == [kind |-> "None", nsfw |-> FALSE, images |-> 0, ver |-> 0]

\* `first` while the first invocation has not ended
NoFirst ==
    [pc |-> "", trace |-> <<>>, result |-> NoneResult, error |-> "",
     latents |-> NoLatent, content |-> NoContent, selfUnet |-> "", selfVae |-> "",
     sagProcessor |-> FALSE, schedulerTimesteps |-> <<>>]

\* Events of `s` whose op is `op`
Calls(s, op) == SelectSeq(s, LAMBDA e : e.op = op)

Ops(s) == {s[k].op : k \in 1..Len(s)}

\* The collaborators of the spec's section 6: text encoder, codec, control
\* adapter, denoiser, scheduler.
NetworkOps == {"text_encoder", "vae_encode", "vae_decode", "controlnet", "unet",
               "set_timesteps", "scale_model_input", "scheduler_step", "add_noise",
               "do_inference"}

----------------------------------------------------------------------------
(* Arguments *)

\* The defaults of __call__'s signature (a short schedule instead of 50 steps)
Base ==
    [promptKind |-> "str", promptLen |-> 1, negKind |-> "none", negLen |-> 0,
     strength |-> 8, cbKind |-> "int", callback_steps |-> 1,
     num_inference_steps |-> 1, guidance_scale |-> 75, self_attention_scale |-> 0,
     num_images_per_prompt |-> 1, hasImage |-> FALSE, hasMask |-> FALSE,
     hasControlnet |-> FALSE, guess_mode |-> FALSE, global_pool_conditions |-> FALSE,
     kdiffusion |-> FALSE, in_channels |-> 4, hasCallback |-> FALSE,
     hasCancel |-> FALSE, output_type |-> "pil", return_dict |-> TRUE,
     maskKind |-> "mixed"]

\* Arguments that decide the control flow of a valid invocation
ArgsControl ==
    { [Base EXCEPT !.strength = s, !.callback_steps = c, !.num_inference_steps = n,
                   !.hasImage = im, !.hasControlnet = cn, !.kdiffusion = kd,
                   !.hasCallback = cb, !.hasCancel = ca, !.output_type = ot,
                   !.return_dict = rd] :
        s \in {0, 5, 10}, c \in 1..MaxCallbackSteps, n \in 0..MaxSteps,
        im \in BOOLEAN, cn \in BOOLEAN, kd \in BOOLEAN, cb \in BOOLEAN,
        ca \in BOOLEAN, ot \in {"pil", "latent"}, rd \in BOOLEAN }

PromptShapes == {<<"str", 1>>, <<"other", 1>>} \cup {<<"list", n>> : n \in 1..MaxBatch}

NegativeShapes == {<<"none", 0>>, <<"str", 0>>} \cup {<<"list", n>> : n \in 0..MaxBatch}

CallbackStepsShapes ==
    {<<"none", 0>>, <<"nonint", 0>>} \cup {<<"int", c>> : c \in (-1)..MaxCallbackSteps}

\* Arguments that decide validation, valid and invalid
ArgsValidation ==
    { [Base EXCEPT !.promptKind = p[1], !.promptLen = p[2], !.negKind = ng[1],
                   !.negLen = ng[2], !.strength = s, !.cbKind = c[1],
                   !.callback_steps = c[2], !.guidance_scale = g, !.hasImage = im,
                   !.hasMask = im, !.hasCancel = TRUE] :
        p \in PromptShapes, ng \in NegativeShapes, s \in {-1, 0, 10, 11},
        c \in CallbackStepsShapes, g \in {10, 75}, im \in BOOLEAN }

\* Arguments that decide the schedule, up to the default of 50 steps
ArgsSchedule ==
    { [Base EXCEPT !.num_inference_steps = n, !.strength = s, !.hasImage = im,
                   !.hasControlnet = cn] :
        n \in 0..MaxScheduleSteps, s \in 0..10, im \in BOOLEAN, cn \in BOOLEAN }

\* Arguments that decide the shapes of what the collaborators are called with
ArgsGuidance ==
    { [Base EXCEPT !.promptKind = p[1], !.promptLen = p[2], !.negKind = ng[1],
                   !.negLen = ng[2], !.num_images_per_prompt = m,
                   !.guidance_scale = g, !.self_attention_scale = sa,
                   !.hasControlnet = cn, !.guess_mode = gm, !.kdiffusion = kd,
                   !.num_inference_steps = n, !.strength = 10, !.hasCancel = TRUE,
                   !.hasCallback = TRUE, !.output_type = ot] :
        p \in PromptShapes \ {<<"other", 1>>}, ng \in NegativeShapes,
        m \in 1..MaxImagesPerPrompt, g \in {5, 10, 75}, sa \in {0, 10},
        cn \in BOOLEAN, gm \in BOOLEAN, kd \in BOOLEAN, n \in 1..2,
        ot \in {"pil", "latent"} }

\* Arguments of an invocation that is made twice on the same pipeline object
ArgsTwice ==
    { [Base EXCEPT !.num_inference_steps = n, !.strength = s, !.hasImage = im,
                   !.hasControlnet = cn, !.kdiffusion = kd,
                   !.self_attention_scale = sa, !.hasCallback = TRUE,
                   !.hasCancel = TRUE] :
        n \in 1..2, s \in {5, 10}, im \in BOOLEAN, cn \in BOOLEAN, kd \in BOOLEAN,
        sa \in {0, 10} }

\* Arguments of the runs from noise, from an image and from an image and a mask
ArgsMask ==
    { [Base EXCEPT !.num_inference_steps = n, !.strength = s, !.hasImage = mk[1],
                   !.hasMask = mk[2], !.maskKind = mk[3], !.kdiffusion = kd,
                   !.hasCancel = TRUE, !.output_type = ot] :
        n \in 0..MaxSteps, s \in {0, 5, 10},
        mk \in {<<FALSE, FALSE, "mixed">>, <<TRUE, FALSE, "mixed">>,
                <<TRUE, TRUE, "zeros">>, <<TRUE, TRUE, "ones">>,
                <<TRUE, TRUE, "mixed">>},
        kd \in BOOLEAN, ot \in {"pil", "latent"} }

\* Arguments of the runs on a denoiser of 4 and of 9 input channels, with and
\* without a mask
ArgsChannels ==
    { [Base EXCEPT !.num_inference_steps = n, !.strength = s, !.hasImage = mk[1],
                   !.hasMask = mk[2], !.in_channels = ch, !.guidance_scale = g,
                   !.kdiffusion = kd, !.hasCancel = TRUE, !.hasCallback = TRUE] :
        n \in 0..MaxSteps, s \in {5, 10},
        mk \in {<<FALSE, FALSE>>, <<TRUE, FALSE>>, <<TRUE, TRUE>>},
        ch \in {4, 9}, g \in {10, 75}, kd \in BOOLEAN }

\* Arguments of the runs with and without a control adapter
ArgsAdapter ==
    { [Base EXCEPT !.num_inference_steps = n, !.strength = s, !.hasImage = im,
                   !.hasControlnet = cn, !.guess_mode = gm,
                   !.global_pool_conditions = gp, !.guidance_scale = g,
                   !.num_images_per_prompt = m, !.kdiffusion = kd,
                   !.hasCancel = TRUE, !.hasCallback = TRUE] :
        n \in 1..MaxSteps, s \in {0, 5, 10}, im \in BOOLEAN, cn \in BOOLEAN,
        gm \in BOOLEAN, gp \in BOOLEAN, g \in {10, 75},
        m \in 1..MaxImagesPerPrompt, kd \in BOOLEAN }

----------------------------------------------------------------------------
(* Pure parts of __call__ and its helpers *)

\* _check_inputs without its test of strength
check_inputs_no_strength(a) ==
    IF a.promptKind \notin {"str", "list"} THEN "prompt_type"
    ELSE IF a.cbKind = "none" \/ a.cbKind # "int" \/ a.callback_steps <= 0
         THEN "callback_steps"
    ELSE ""

\* _check_inputs letting a callback_steps of 0 through
check_inputs_zero_callback_steps(a) ==
    IF a.promptKind \notin {"str", "list"} THEN "prompt_type"
    ELSE IF a.strength < 0 \/ a.strength > 10 THEN "strength"
    ELSE IF a.cbKind = "none" \/ a.cbKind # "int" \/ a.callback_steps < 0
         THEN "callback_steps"
    ELSE ""

\* _check_inputs: the error it raises, "" when it returns
check_inputs(a) ==
    IF a.promptKind \notin {"str", "list"} THEN "prompt_type"
    ELSE IF a.strength < 0 \/ a.strength > 10 THEN "strength"
    ELSE IF a.cbKind = "none" \/ a.cbKind # "int" \/ a.callback_steps <= 0
         THEN "callback_steps"
    ELSE ""

batch_size(a) == IF a.promptKind = "list" THEN a.promptLen ELSE 1

\* A negative-prompt list broadcast like a missing or single negative prompt
negative_batch_any_list(a) == batch_size(a)

\* len(negative_prompt) after a missing or single negative prompt is broadcast
negative_batch(a) == IF a.negKind = "list" THEN a.negLen ELSE batch_size(a)

\* guidance_scale >= 1.0 in place of > 1.0
do_classifier_free_guidance_from_one(a) == a.guidance_scale >= 10

do_classifier_free_guidance(a) == a.guidance_scale > 10

\* self_attention_scale >= 0.0 in place of > 0.0
do_self_attention_guidance_from_zero(a) == a.self_attention_scale >= 0

do_self_attention_guidance(a) == a.self_attention_scale > 0

\* Batch dimension of what _encode_prompt returns
encode_prompt_batch(a) ==
    LET text == batch_size(a) * a.num_images_per_prompt
        uncond == negative_batch(a) * a.num_images_per_prompt
    IN  IF do_classifier_free_guidance(a) THEN uncond + text ELSE text

\* The flag without its test of the image: only a control adapter counts
is_text2img_controlnet_only(a) == a.hasControlnet

\* The run taken as starting from noise only when no image is supplied
is_text2img_image_only(a) == ~a.hasImage

\* The last argument of get_timesteps: the run starts from pure noise
is_text2img(a) == ~a.hasImage \/ a.hasControlnet

\* scheduler.timesteps after set_timesteps(n): n identifiers, decreasing
scheduler_timesteps(n) == [j \in 1..n |-> n - j + 1]

\* scheduler.set_timesteps(n) that keeps a schedule the scheduler already has
set_timesteps_keeps(sched, n) == IF sched = <<>> THEN scheduler_timesteps(n) ELSE sched

\* scheduler.set_timesteps(n): the scheduler's schedule is rebuilt
set_timesteps(sched, n) == scheduler_timesteps(n)

\* get_timesteps: <<schedule, effective step count>>, the schedule being
\* scheduler.timesteps from the start offset on
get_timesteps(sched, n, strength, text2img) ==
    LET effective == IF text2img THEN n ELSE Min(Round10(n * strength), n)
        t_start == n - effective
    IN  <<SubSeq(sched, t_start + 1, Len(sched)), effective>>

\* The mask values that occur in the mask; a run without a mask blends nowhere
MaskValues(a) ==
    IF ~a.hasMask THEN {1}
    ELSE IF a.maskKind = "zeros" THEN {0}
    ELSE IF a.maskKind = "ones" THEN {1}
    ELSE {0, 1}

\* prepare_latents: from the encoded and noised image when it is given one
init_content(a) ==
    [origin |-> IF a.hasImage /\ ~a.hasControlnet THEN "image" ELSE "noise",
     steps |-> <<>>, blended |-> FALSE, at0 |-> <<"x", 0>>]

\* No masking at the end of do_denoise
blends_never(a) == FALSE

\* The masking at the end of do_denoise whatever the denoiser's input channels
blends_any_channels(a) == a.hasMask

\* if mask is not None and num_channels_unet == 4
blends(a) == a.hasMask /\ a.in_channels = 4

\* The known-region latent noised again on the last step as on the others
noise_timestep_every_step(idx, ts) == IF idx < Len(ts) - 1 THEN ts[idx + 2] ELSE ts[idx + 1]

\* The known-region latent noised to the timestep of the step just made
noise_timestep_current(idx, ts) == IF idx < Len(ts) - 1 THEN ts[idx + 1] ELSE 0

\* if i < len(timesteps) - 1: the timestep the known-region latent is noised
\* to; 0 when it is left clean
noise_timestep(idx, ts) == IF idx < Len(ts) - 1 THEN ts[idx + 2] ELSE 0

\* The content do_denoise returns for a latent of content c at timestep t, the
\* closure's i being idx:
\* x = (1 - init_mask) * init_latents_proper + init_mask * x
denoise_content(c, t, idx, a, ts) ==
    [origin |-> c.origin,
     steps |-> Append(c.steps, t),
     blended |-> (c.blended \/ (c.at0[1] = "known" /\ 0 \in MaskValues(a))),
     at0 |-> IF blends(a) THEN <<"known", noise_timestep(idx, ts)>> ELSE <<"x", 0>>]

RECURSIVE content_after(_, _, _, _)
\* for i, t in enumerate(timesteps): latents = do_denoise(latents, t, _call),
\* from step idx on
content_after(c, idx, ts, a) ==
    IF idx >= Len(ts) THEN c
    ELSE content_after(denoise_content(c, ts[idx + 1], idx, a, ts), idx + 1, ts, a)

\* The content of the latent that the loop of a run with arguments a ends with
run_content(a) ==
    LET n == a.num_inference_steps
        ts == get_timesteps(set_timesteps(<<>>, n), n, a.strength, is_text2img(a))[1]
    IN  content_after(init_content(a), 0, ts, a)

\* The keep weight dropped at the last entry
keep_weight_last_dropped(idx, n) == 10 - (IF idx < 0 \/ idx + 1 >= n THEN 10 ELSE 0)

\* One entry of controlnet_keep, in tenths
keep_weight(idx, n) == 10 - (IF idx < 0 \/ idx + 1 > n THEN 10 ELSE 0)

----------------------------------------------------------------------------
(* Leaving __call__: the `with inference_context(...)` block is exited *)

Return(res) ==
    /\ pc' = "returned"
    /\ result' = res
    /\ error' = error
    /\ ctxHeld' = FALSE
    /\ ctxExits' = ctxExits + 1

\* An exception that leaves the block without the context being exited
Raise_KeepsContext(err) ==
    /\ pc' = "raised"
    /\ error' = err
    /\ UNCHANGED <<result, ctxHeld, ctxExits>>

Raise(err) ==
    /\ pc' = "raised"
    /\ error' = err
    /\ result' = result
    /\ ctxHeld' = FALSE
    /\ ctxExits' = ctxExits + 1

\* The block goes on
Continue(next) ==
    /\ pc' = next
    /\ UNCHANGED <<result, error, ctxHeld, ctxExits>>

\* Errors raised by the interpreter itself, where the code reaches them
PythonErrors == {"NameError", "TypeError"}

\* A call that raises is made once more before its exception is let through
RaiseAt_Retry(calls) ==
    \E n \in 1..Len(calls) :
        /\ \A m \in 1..(n - 1) : calls[m].op \notin PythonErrors
        /\ trace' = trace \o SubSeq(calls, 1, n) \o <<calls[n]>>
        /\ Raise(calls[n].op)

\* One of the collaborator calls of `calls` raises: the calls up to it were made
RaiseAt(calls) ==
    \E n \in 1..Len(calls) :
        /\ \A m \in 1..(n - 1) : calls[m].op \notin PythonErrors
        /\ trace' = trace \o SubSeq(calls, 1, n)
        /\ Raise(calls[n].op)

\* Every call of `calls` returns; a Python error among them cannot
AllReturn(calls) ==
    /\ \A n \in 1..Len(calls) : calls[n].op \notin PythonErrors
    /\ trace' = trace \o calls

----------------------------------------------------------------------------
(* Before the loop *)

InitCall(A) ==
    /\ args \in A
    /\ pc = "idle"
    /\ interrupt = FALSE
    /\ ctxHeld = FALSE
    /\ ctxExits = 0
    /\ selfUnet = "own"
    /\ selfVae = "own"
    /\ guess_mode = args.guess_mode
    /\ embBatch = 0
    /\ timesteps = <<>>
    /\ num_inference_steps = args.num_inference_steps
    /\ latents = NoLatent
    /\ controlnet_keep = <<>>
    /\ i = -1
    /\ embLayout = <<>>
    /\ noise_pred_term = NoPred
    /\ loopIdx = 0
    /\ sagProcessor = FALSE
    /\ hookRegistered = FALSE
    /\ samplerGiven = {}
    /\ trace = <<>>
    /\ result = NoneResult
    /\ error = ""
    /\ content = NoContent
    /\ schedulerTimesteps = <<>>
    /\ run = 1
    /\ first = NoFirst

\* The server as it is while an invocation is looked at on its own: nothing
\* registered, nothing queued, no request handled yet
RoutesQuiet ==
    /\ enable_shutdown = FALSE
    /\ uvicorn_server = [exists |-> FALSE, force_exit |-> FALSE, down |-> FALSE]
    /\ uvicorn_loop = [exists |-> FALSE, stopped |-> FALSE]
    /\ asyncio_tasks = <<>>
    /\ jobs = <<>>
    /\ themes = {}
    /\ notifications = <<>>
    /\ shutdownPc = "idle"
    /\ effects = <<>>
    /\ shutdowns = 0
    /\ exited = FALSE
    /\ response = NoResponse

InitWith(A) == InitCall(A) /\ RoutesQuiet

Init == InitWith(ArgsControl \cup ArgsValidation)

\* The block entered without self.unet and self.vae being rebound
Enter_KeepsOwn ==
    /\ pc = "idle"
    /\ pc' = "check"
    /\ ctxHeld' = TRUE
    /\ UNCHANGED <<content, schedulerTimesteps, run, first, routesVars, embLayout, noise_pred_term,
                   args, interrupt, ctxExits, guess_mode, embBatch, timesteps,
                   num_inference_steps, latents, controlnet_keep, i, loopIdx,
                   sagProcessor, hookRegistered, samplerGiven, trace, result, error,
                   selfUnet, selfVae>>

\* with inference_context(self.unet, self.vae, height, width) as inf
Enter ==
    /\ pc = "idle"
    /\ pc' = "check"
    /\ ctxHeld' = TRUE
    /\ selfUnet' = "inf"
    /\ selfVae' = "inf"
    /\ UNCHANGED <<content, schedulerTimesteps, run, first, routesVars, embLayout, noise_pred_term,
                   args, interrupt, ctxExits, guess_mode, embBatch, timesteps,
                   num_inference_steps, latents, controlnet_keep, i, loopIdx,
                   sagProcessor, hookRegistered, samplerGiven, trace, result, error>>

\* 1. Check inputs
CheckInputs ==
    /\ pc = "check"
    /\ IF check_inputs(args) # ""
       THEN Raise(check_inputs(args)) /\ UNCHANGED guess_mode
       ELSE /\ Continue("encode")
            /\ guess_mode' = IF args.hasControlnet
                             THEN (args.guess_mode \/ args.global_pool_conditions)
                             ELSE args.guess_mode
    /\ UNCHANGED <<content, schedulerTimesteps, run, first, routesVars, embLayout, noise_pred_term,
                   args, interrupt, selfUnet, selfVae, embBatch, timesteps,
                   num_inference_steps, latents, controlnet_keep, i, loopIdx,
                   sagProcessor, hookRegistered, samplerGiven, trace>>

\* The conditional embeddings placed before the unconditional ones
text_embeddings_layout_swapped(a) ==
    IF do_classifier_free_guidance(a) THEN <<"text", "uncond">> ELSE <<"text">>

\* _encode_prompt: text_embeddings = torch.cat([uncond_embeddings,
\* text_embeddings]) under guidance, text_embeddings alone otherwise
text_embeddings_layout(a) ==
    IF do_classifier_free_guidance(a) THEN <<"uncond", "text">> ELSE <<"text">>

\* The prediction do_denoise forms from the denoiser's output, whose blocks
\* along the batch are those of the embeddings (layout):
\*   noise_pred_uncond, noise_pred_text = noise_pred.chunk(2)
\*   noise_pred = noise_pred_uncond + guidance_scale * (noise_pred_text - noise_pred_uncond)
\*   noise_pred += self_attention_scale * (noise_pred_uncond - degraded_prep)
\* as the term base + scale * (plus - minus) + sag_scale * (sag_plus - sag_minus)
guided_noise_pred(a, layout) ==
    LET cfg == do_classifier_free_guidance(a)
        sag == do_self_attention_guidance(a)
    IN  [base |-> layout[1],
         scale |-> IF cfg THEN a.guidance_scale ELSE 0,
         plus |-> IF cfg THEN layout[2] ELSE "",
         minus |-> IF cfg THEN layout[1] ELSE "",
         sag_scale |-> IF sag THEN a.self_attention_scale ELSE 0,
         sag_plus |-> IF sag THEN layout[1] ELSE "",
         sag_minus |-> IF sag THEN "degraded" ELSE ""]

encode_prompt_calls(a) ==
    <<Ev("text_encoder", -1, 0, batch_size(a),
         IF do_classifier_free_guidance(a) THEN negative_batch(a) ELSE 0, 0)>>

\* 3. Encode input prompt
EncodePrompt ==
    /\ pc = "encode"
    /\ IF batch_size(args) # negative_batch(args)
       THEN Raise("batch_size_mismatch") /\ UNCHANGED <<trace, embBatch, embLayout>>
       ELSE \/ /\ AllReturn(encode_prompt_calls(args))
               /\ embBatch' = encode_prompt_batch(args)
               /\ embLayout' = text_embeddings_layout(args)
               /\ Continue("preprocess")
            \/ /\ RaiseAt(encode_prompt_calls(args))
               /\ UNCHANGED <<embBatch, embLayout>>
    /\ UNCHANGED <<content, schedulerTimesteps, run, first, routesVars, noise_pred_term,
                   args, interrupt, selfUnet, selfVae, guess_mode, timesteps,
                   num_inference_steps, latents, controlnet_keep, i, loopIdx,
                   sagProcessor, hookRegistered, samplerGiven>>

\* prepare_mask_latents encodes the masked image with the codec
preprocess_calls(a) ==
    IF a.hasMask THEN <<Ev("vae_encode", -1, 0, 1, 0, 0)>> ELSE <<>>

\* 4. Preprocess image and mask
Preprocess ==
    /\ pc = "preprocess"
    /\ \/ AllReturn(preprocess_calls(args)) /\ Continue("timesteps")
       \/ RaiseAt(preprocess_calls(args))
    /\ UNCHANGED <<content, schedulerTimesteps, run, first, routesVars, embLayout, noise_pred_term,
                   args, interrupt, selfUnet, selfVae, guess_mode, embBatch, timesteps,
                   num_inference_steps, latents, controlnet_keep, i, loopIdx,
                   sagProcessor, hookRegistered, samplerGiven>>

set_timesteps_calls(a) == <<Ev("set_timesteps", -1, 0, a.num_inference_steps, 0, 0)>>

\* 5. set timesteps
SetTimesteps ==
    /\ pc = "timesteps"
    /\ \/ /\ AllReturn(set_timesteps_calls(args))
          /\ LET sched == set_timesteps(schedulerTimesteps, args.num_inference_steps)
                 r == get_timesteps(sched, args.num_inference_steps, args.strength,
                                    is_text2img(args))
             IN  /\ timesteps' = r[1]
                 /\ num_inference_steps' = r[2]
                 /\ schedulerTimesteps' = IF args.kdiffusion THEN r[1] ELSE sched
          /\ Continue("latents")
       \/ /\ RaiseAt(set_timesteps_calls(args))
          /\ UNCHANGED <<timesteps, num_inference_steps, schedulerTimesteps>>
    /\ UNCHANGED <<content, run, first, routesVars, embLayout, noise_pred_term, args, interrupt, selfUnet, selfVae, guess_mode, embBatch, latents,
                   controlnet_keep, i, loopIdx, sagProcessor, hookRegistered,
                   samplerGiven>>

\* prepare_latents: a reference image is encoded and noised to timesteps[:1]
prepare_latents_calls(a) ==
    IF a.hasImage /\ ~a.hasControlnet
    THEN <<Ev("vae_encode", -1, 0, 1, 0, 0),
           Ev("add_noise", -1, 0, batch_size(a) * a.num_images_per_prompt, 0, 0)>>
    ELSE <<>>

\* 6. Prepare latent variables
PrepareLatents ==
    /\ pc = "latents"
    /\ \/ /\ AllReturn(prepare_latents_calls(args))
          /\ latents' = [batch |-> batch_size(args) * args.num_images_per_prompt,
                          ver |-> 0]
          /\ content' = init_content(args)
          /\ Continue("setup")
       \/ /\ RaiseAt(prepare_latents_calls(args))
          /\ UNCHANGED <<latents, content>>
    /\ UNCHANGED <<schedulerTimesteps, run, first, routesVars, embLayout, noise_pred_term,
                   args, interrupt, selfUnet, selfVae, guess_mode, embBatch, timesteps,
                   num_inference_steps, controlnet_keep, i, loopIdx, sagProcessor,
                   hookRegistered, samplerGiven>>

\* 7. extra step kwargs, controlnet_keep, the attention-storing processor
Setup ==
    /\ pc = "setup"
    /\ controlnet_keep' = IF args.hasControlnet
                          THEN [k \in 1..Len(timesteps) |->
                                    keep_weight(k - 1, Len(timesteps))]
                          ELSE <<>>
    /\ i' = IF args.hasControlnet /\ Len(timesteps) > 0 THEN Len(timesteps) - 1 ELSE i
    /\ sagProcessor' = (sagProcessor \/ do_self_attention_guidance(args))
    /\ Continue("loop")
    /\ UNCHANGED <<content, schedulerTimesteps, run, first, routesVars, embLayout, noise_pred_term,
                   args, interrupt, selfUnet, selfVae, guess_mode, embBatch, timesteps,
                   num_inference_steps, latents, loopIdx, hookRegistered,
                   samplerGiven, trace>>

----------------------------------------------------------------------------
(* The denoising loop *)

\* The scheduler's step made by an external sampler's do_denoise as well
calls_scheduler_step_always(a) == TRUE

\* if not isinstance(self.scheduler, KdiffusionSchedulerAdapter): do_denoise
\* calls self.scheduler.step; else x = noise_pred
calls_scheduler_step(a) == ~a.kdiffusion

\* What x is when do_denoise reaches the masking and returns: the scheduler's
\* prev_sample, or the guided noise_pred when the scheduler's step is not called
do_denoise_returns(a) == IF calls_scheduler_step(a) THEN "prev_sample" ELSE "noise_pred"

\* The adapter given the whole embedding batch in guess mode as well
controlnet_prompt_embeds_whole(a, gm, emb) == emb

\* controlnet_prompt_embeds: text_embeddings.chunk(2)[1] in guess mode under
\* guidance, text_embeddings otherwise (batch sizes)
controlnet_prompt_embeds(a, gm, emb) ==
    IF gm /\ do_classifier_free_guidance(a) THEN emb \div 2 ELSE emb

\* The blocks of the embeddings the adapter is given:
\* text_embeddings.chunk(2)[1] in guess mode under guidance
controlnet_prompt_blocks(a, gm, layout) ==
    IF gm /\ do_classifier_free_guidance(a) THEN <<layout[2]>> ELSE layout

\* The blocks of every residual handed to the denoiser:
\* torch.cat([torch.zeros_like(d), d]) in guess mode under guidance, d otherwise
residual_blocks(a, gm) ==
    IF gm /\ do_classifier_free_guidance(a) THEN <<"zeros", "residual">>
    ELSE <<"residual">>

\* The degraded call given the whole embedding batch
sag_cond_whole(a, emb) == emb

\* cond of the degraded call: uncond_emb, _ = text_embeddings.chunk(2) under
\* guidance, text_embeddings otherwise (batch sizes)
sag_cond(a, emb) == IF do_classifier_free_guidance(a) THEN emb \div 2 ELSE emb

\* The blocks of the embeddings the degraded call is given:
\* uncond_emb, _ = text_embeddings.chunk(2) under guidance
sag_cond_blocks(a, layout) ==
    IF do_classifier_free_guidance(a) THEN <<layout[1]>> ELSE layout

\* What do_denoise(x, t, call) calls, in order, when the closure's i is idx.
\* With the KdiffusionSchedulerAdapter the scheduler's step is not called.
\* cat_mask is the torch.cat of mask and masked_image_latents onto the denoiser
\* input, zero_pad the torch.cat of zeros before every residual of the adapter.
do_denoise_calls(x, t, idx) ==
    LET a == args
        cfg == do_classifier_free_guidance(a)
        inBatch == IF cfg THEN 2 * x.batch ELSE x.batch
        scale == <<Ev("scale_model_input", idx, t, inBatch, 0, x.ver)>>
        concat == IF a.in_channels # 9 THEN <<>>
                  ELSE IF ~a.hasMask THEN <<Ev("NameError", idx, t, 0, 0, 0)>>
                  ELSE <<Ev("cat_mask", idx, t, inBatch, 0, x.ver)>>
        control ==
            IF ~a.hasControlnet THEN <<>>
            ELSE (IF guess_mode /\ cfg
                  THEN <<Ev("scale_model_input", idx, t, x.batch, 0, x.ver)>>
                  ELSE <<>>)
                 \o (IF idx < 0 \/ idx >= Len(controlnet_keep)
                     THEN <<Ev("NameError", idx, t, 0, 0, 0)>>
                     ELSE <<Ev("controlnet", idx, t,
                               IF guess_mode /\ cfg THEN x.batch ELSE inBatch,
                               controlnet_prompt_embeds(a, guess_mode, embBatch),
                               controlnet_keep[idx + 1])>>)
                 \o (IF residual_blocks(a, guess_mode)[1] = "zeros"
                     THEN <<Ev("zero_pad", idx, t, 2 * x.batch, 0, x.ver)>>
                     ELSE <<>>)
        unet == <<Ev("unet", idx, t, inBatch, embBatch, x.ver)>>
        sag == IF do_self_attention_guidance(a)
               THEN <<Ev("unet_sag", idx, t, x.batch, sag_cond(a, embBatch), x.ver)>>
               ELSE <<>>
        step == IF calls_scheduler_step(a)
                THEN <<Ev("scheduler_step", idx, t, x.batch, 0, x.ver)>>
                ELSE <<>>
        masking ==
            IF ~blends(a) THEN <<>>
            ELSE IF idx < 0 THEN <<Ev("NameError", idx, t, 0, 0, 0)>>
            ELSE IF noise_timestep(idx, timesteps) # 0
                 THEN <<Ev("add_noise", idx, noise_timestep(idx, timesteps), 1, 0, 0)>>
                 ELSE <<>>
    IN  scale \o concat \o control \o unet \o sag \o step \o masking

\* do_denoise without the chunk(2) of the guided prediction
do_denoise_result_unsplit(x) ==
    [batch |-> IF do_classifier_free_guidance(args) THEN 2 * x.batch ELSE x.batch,
     ver |-> x.ver + 1]

\* What do_denoise returns: the denoiser's prediction has the batch of its input,
\* guidance keeps one half of it, and the step keeps the prediction's batch
do_denoise_result(x) ==
    LET cfg == do_classifier_free_guidance(args)
        noise_pred == IF cfg THEN 2 * x.batch ELSE x.batch
        guided == IF cfg THEN noise_pred \div 2 ELSE noise_pred
    IN  [batch |-> guided, ver |-> x.ver + 1]

\* A loop that stops one step short of the schedule's end
loop_pc_one_short(idx, n) == IF idx < n - 1 THEN "denoise" ELSE "post"

\* A loop whose body runs before its test: once even on an empty schedule
loop_pc_body_first(idx, n) == IF idx < n \/ idx = 0 THEN "denoise" ELSE "post"

\* for i, t in enumerate(timesteps): where the loop goes with idx next
loop_pc(idx, n) == IF idx < n THEN "denoise" ELSE "post"

\* The keyword arguments of self.scheduler.do_inference
do_inference_kwargs ==
    {"generator", "call", "apply_model", "callback", "callback_steps"}

do_inference_calls(x) == <<Ev("do_inference", -1, 0, x.batch, 0, x.ver)>>

\* 8. Denoising loop: the ExitStack is entered and the variant chosen
EnterLoop ==
    /\ pc = "loop"
    /\ IF args.kdiffusion
       THEN \/ /\ AllReturn(do_inference_calls(latents))
               /\ samplerGiven' = do_inference_kwargs
               /\ Continue("sampler")
               /\ hookRegistered' = do_self_attention_guidance(args)
            \/ /\ RaiseAt(do_inference_calls(latents))
               /\ UNCHANGED <<samplerGiven, hookRegistered>>
       ELSE /\ Continue(loop_pc(0, Len(timesteps)))
            /\ hookRegistered' = (do_self_attention_guidance(args)
                                   /\ loop_pc(0, Len(timesteps)) = "denoise")
            /\ UNCHANGED <<samplerGiven, trace>>
    /\ UNCHANGED <<content, schedulerTimesteps, run, first, routesVars, embLayout, noise_pred_term,
                   args, interrupt, selfUnet, selfVae, guess_mode, embBatch, timesteps,
                   num_inference_steps, latents, controlnet_keep, i, loopIdx,
                   sagProcessor>>

\* latents = do_denoise(latents, t, _call) of step loopIdx
DenoiseStep ==
    /\ pc = "denoise"
    /\ i' = loopIdx
    /\ LET calls == do_denoise_calls(latents, timesteps[loopIdx + 1], loopIdx)
       IN  \/ /\ AllReturn(calls)
              /\ latents' = do_denoise_result(latents)
              /\ noise_pred_term' = guided_noise_pred(args, embLayout)
              /\ content' = denoise_content(content, timesteps[loopIdx + 1], loopIdx,
                                            args, timesteps)
              /\ Continue("boundary")
              /\ UNCHANGED hookRegistered
           \/ /\ RaiseAt(calls)
              /\ hookRegistered' = FALSE
              /\ UNCHANGED <<latents, content, noise_pred_term>>
    /\ UNCHANGED <<schedulerTimesteps, run, first, routesVars, embLayout,
                   args, interrupt, selfUnet, selfVae, guess_mode, embBatch, timesteps,
                   num_inference_steps, controlnet_keep, loopIdx, sagProcessor,
                   samplerGiven>>

\* The callback and the poll at every step, whatever callback_steps is
is_callback_step_every(idx, a) == TRUE

\* Step i is one at which the callback is called and cancellation polled
is_callback_step(idx, a) == idx % a.callback_steps = 0

callback_calls(idx, t, x, a) ==
    IF is_callback_step(idx, a) /\ a.hasCallback
    THEN <<Ev("callback", idx, t, x.batch, 0, x.ver)>>
    ELSE <<>>

\* The poll of is_cancelled_callback; x is 1 when it returned True
cancel_calls(idx, t, a, flag) ==
    IF is_callback_step(idx, a) /\ a.hasCancel
    THEN <<Ev("is_cancelled", idx, t, 0, 0, IF flag THEN 1 ELSE 0)>>
    ELSE <<>>

\* A poll that returned True at the last step is not acted on
poll_cancels_not_last(idx, a, flag) ==
    is_callback_step(idx, a) /\ a.hasCancel /\ flag /\ idx < Len(timesteps) - 1

\* The poll at this step returned True
poll_cancels(idx, a, flag) == is_callback_step(idx, a) /\ a.hasCancel /\ flag

\* The poll before the callback
boundary_calls_poll_first(idx, t, x, a, flag) ==
    cancel_calls(idx, t, a, flag) \o callback_calls(idx, t, x, a)

\* if i % callback_steps == 0: the callback, then the poll
boundary_calls(idx, t, x, a, flag) ==
    callback_calls(idx, t, x, a) \o cancel_calls(idx, t, a, flag)

\* A break in place of return None: the loop is left and the latent decoded
OnCancel_Break == Continue("post")

\* return None
OnCancel == Return(NoneResult)

\* The end of the loop body of step i: callback, poll, next step or loop end
StepBoundary ==
    /\ pc = "boundary"
    /\ trace' = trace \o boundary_calls(i, timesteps[i + 1], latents, args, interrupt)
    /\ IF poll_cancels(i, args, interrupt)
       THEN /\ OnCancel
            /\ hookRegistered' = FALSE
            /\ UNCHANGED loopIdx
       ELSE /\ loopIdx' = loopIdx + 1
            /\ Continue(loop_pc(loopIdx + 1, Len(timesteps)))
            /\ hookRegistered' = (hookRegistered
                                   /\ loop_pc(loopIdx + 1, Len(timesteps)) = "denoise")
    /\ UNCHANGED <<content, schedulerTimesteps, run, first, routesVars, embLayout, noise_pred_term,
                   args, interrupt, selfUnet, selfVae, guess_mode, embBatch, timesteps,
                   num_inference_steps, latents, controlnet_keep, i, sagProcessor,
                   samplerGiven>>

\* One internal step of the external sampler: it calls apply_model = do_denoise
\* and invokes the progress callback it was given
SamplerStep ==
    /\ pc = "sampler"
    /\ loopIdx < Len(timesteps)
    /\ LET t == timesteps[loopIdx + 1]
           calls == do_denoise_calls(latents, t, i)
           progress == IF "callback" \in samplerGiven
                       THEN callback_calls(loopIdx, t, do_denoise_result(latents), args)
                       ELSE <<>>
       IN  \/ /\ AllReturn(calls \o progress)
              /\ latents' = do_denoise_result(latents)
              /\ noise_pred_term' = guided_noise_pred(args, embLayout)
              /\ content' = denoise_content(content, t, i, args, timesteps)
              /\ loopIdx' = loopIdx + 1
              /\ Continue("sampler")
              /\ UNCHANGED hookRegistered
           \/ /\ RaiseAt(calls)
              /\ hookRegistered' = FALSE
              /\ UNCHANGED <<latents, loopIdx, content, noise_pred_term>>
    /\ UNCHANGED <<schedulerTimesteps, run, first, routesVars, embLayout,
                   args, interrupt, selfUnet, selfVae, guess_mode, embBatch, timesteps,
                   num_inference_steps, controlnet_keep, i, sagProcessor, samplerGiven>>

\* The sampler has run every step of its schedule: do_inference returns the
\* latent and the ExitStack is left
SamplerReturn ==
    /\ pc = "sampler"
    /\ loopIdx = Len(timesteps)
    /\ Continue("post")
    /\ hookRegistered' = FALSE
    /\ UNCHANGED <<content, schedulerTimesteps, run, first, routesVars, embLayout, noise_pred_term,
                   args, interrupt, selfUnet, selfVae, guess_mode, embBatch, timesteps,
                   num_inference_steps, latents, controlnet_keep, i, loopIdx,
                   sagProcessor, samplerGiven, trace>>

----------------------------------------------------------------------------
(* After the loop *)

\* The decode made whatever output_type is
postprocess_calls_always_decode(a, x) == <<Ev("vae_decode", -1, 0, x.batch, 0, x.ver)>>

postprocess_calls(a, x) ==
    IF a.output_type = "latent" THEN <<>>
    ELSE <<Ev("vae_decode", -1, 0, x.batch, 0, x.ver)>>

\* The flag taken from a safety checker run on the decoded images
postprocess_result_checked(a, x) ==
    [kind |-> IF a.output_type = "latent" THEN "latents_tuple"
              ELSE IF ~a.return_dict THEN "tuple" ELSE "output",
     nsfw |-> (a.output_type = "pil"), images |-> x.batch, ver |-> x.ver]

\* What __call__ returns after the loop
postprocess_result(a, x) ==
    [kind |-> IF a.output_type = "latent" THEN "latents_tuple"
              ELSE IF ~a.return_dict THEN "tuple" ELSE "output",
     nsfw |-> FALSE, images |-> x.batch, ver |-> x.ver]

\* 9. Post-processing
PostProcess ==
    /\ pc = "post"
    /\ \/ /\ AllReturn(postprocess_calls(args, latents))
          /\ Return(postprocess_result(args, latents))
       \/ RaiseAt(postprocess_calls(args, latents))
    /\ UNCHANGED <<content, schedulerTimesteps, run, first, routesVars, embLayout, noise_pred_term,
                   args, interrupt, selfUnet, selfVae, guess_mode, embBatch, timesteps,
                   num_inference_steps, latents, controlnet_keep, i, loopIdx,
                   sagProcessor, hookRegistered, samplerGiven>>

----------------------------------------------------------------------------
(* POST /interrupt *)

Interrupt ==
    /\ ~exited
    /\ interrupt' = TRUE
    /\ response' = Message("interrupt", "Interupted")
    /\ UNCHANGED <<content, schedulerTimesteps, run, first, embLayout, noise_pred_term,
                   args, pc, ctxHeld, ctxExits, selfUnet, selfVae, guess_mode, embBatch,
                   timesteps, num_inference_steps, latents, controlnet_keep, i, loopIdx,
                   sagProcessor, hookRegistered, samplerGiven, trace, result, error>>
    /\ UNCHANGED <<enable_shutdown, uvicorn_server, uvicorn_loop, asyncio_tasks, jobs,
                   themes, notifications, shutdownPc, effects, shutdowns, exited>>

----------------------------------------------------------------------------

Next ==
    \/ Enter
    \/ CheckInputs
    \/ EncodePrompt
    \/ Preprocess
    \/ SetTimesteps
    \/ PrepareLatents
    \/ Setup
    \/ EnterLoop
    \/ DenoiseStep
    \/ StepBoundary
    \/ SamplerStep
    \/ SamplerReturn
    \/ PostProcess
    \/ Interrupt

Spec == Init /\ [][Next]_vars

\* What the interpreter does next in __call__: every step but the request
\* to /interrupt, which may never come
Advance ==
    \/ Enter
    \/ CheckInputs
    \/ EncodePrompt
    \/ Preprocess
    \/ SetTimesteps
    \/ PrepareLatents
    \/ Setup
    \/ EnterLoop
    \/ DenoiseStep
    \/ StepBoundary
    \/ SamplerStep
    \/ SamplerReturn
    \/ PostProcess

\* The invocation runs on while it has a next statement: every collaborator and
\* callback it calls returns or raises
SpecLive == Init /\ [][Next]_vars /\ WF_vars(Advance)

\* The invocation up to the schedule, for step counts up to the default
InitSchedule == InitWith(ArgsSchedule)

NextSchedule ==
    \/ Enter
    \/ CheckInputs
    \/ EncodePrompt
    \/ Preprocess
    \/ SetTimesteps

SpecSchedule == InitSchedule /\ [][NextSchedule]_vars

\* __call__ is called again, with the same arguments, on the pipeline object the
\* first invocation left: the locals are new, the object's attributes are kept
Again ==
    /\ run = 1
    /\ pc \in {"returned", "raised"}
    /\ run' = 2
    /\ first' = [pc |-> pc, trace |-> trace, result |-> result, error |-> error,
                 latents |-> latents, content |-> content, selfUnet |-> selfUnet,
                 selfVae |-> selfVae,
                 sagProcessor |-> sagProcessor,
                 schedulerTimesteps |-> schedulerTimesteps]
    /\ pc' = "idle"
    /\ ctxExits' = 0
    /\ guess_mode' = args.guess_mode
    /\ embBatch' = 0
    /\ embLayout' = <<>>
    /\ noise_pred_term' = NoPred
    /\ timesteps' = <<>>
    /\ num_inference_steps' = args.num_inference_steps
    /\ latents' = NoLatent
    /\ content' = NoContent
    /\ controlnet_keep' = <<>>
    /\ i' = -1
    /\ loopIdx' = 0
    /\ samplerGiven' = {}
    /\ trace' = <<>>
    /\ result' = NoneResult
    /\ error' = ""
    /\ UNCHANGED <<args, interrupt, ctxHeld, selfUnet, selfVae, sagProcessor,
                   hookRegistered, schedulerTimesteps, routesVars>>

InitTwice == InitWith(ArgsTwice)

NextTwice == Next \/ Again

SpecTwice == InitTwice /\ [][NextTwice]_vars

\* The invocation with and without a reference image and a mask
InitMask == InitWith(ArgsMask)

SpecMask == InitMask /\ [][Next]_vars

\* The invocation over the arguments that shape the collaborators' inputs
InitGuidance == InitWith(ArgsGuidance)

SpecGuidance == InitGuidance /\ [][Next]_vars

\* The invocation on denoisers of 4 and of 9 input channels
InitChannels == InitWith(ArgsChannels)

SpecChannels == InitChannels /\ [][Next]_vars

\* The invocation with and without a control adapter
InitAdapter == InitWith(ArgsAdapter)

SpecAdapter == InitAdapter /\ [][Next]_vars

----------------------------------------------------------------------------
(* The other routes of api/routes/general.py. A handler runs without
   interruption up to its next await; POST /shutdown has two: the broadcast
   and uvicorn_server.shutdown(). *)

\* Everything of an invocation of the pipeline: no route touches it
callVars == <<args, pc, ctxHeld, ctxExits, selfUnet, selfVae, guess_mode, embBatch,
              timesteps, num_inference_steps, latents, controlnet_keep, i, loopIdx,
              sagProcessor, hookRegistered, samplerGiven, trace, result, error,
              content, schedulerTimesteps, run, first, embLayout, noise_pred_term>>

\* Notification(message=..., severity=..., title="Shutdown")
Notification(severity, message) ==
    [severity |-> severity, title |-> "Shutdown", message |-> message]

\* An assertion of the handler of `route` failed
AssertionFailed(route) == [NoResponse EXCEPT !.route = route, !.error = "AssertionError"]

\* for task in shared.asyncio_tasks: task.cancel()
cancel_tasks(tasks) == [k \in 1..Len(tasks) |-> "cancelled"]

\* The shutdown made whatever the configuration says
may_shutdown_always(enabled) == TRUE

\* if config.api.enable_shutdown
may_shutdown(enabled) == enabled

\* POST /shutdown, from the request to the first await, or to the failed
\* assertion when shutdown is enabled and there is no server
ShutdownBegin ==
    /\ ~exited
    /\ shutdownPc = "idle"
    /\ shutdowns < MaxShutdowns
    /\ shutdowns' = shutdowns + 1
    /\ IF may_shutdown(enable_shutdown)
       THEN IF uvicorn_server.exists
            THEN /\ notifications' = Append(notifications,
                                            Notification("warning",
                                                         "Shutting down the server"))
                 /\ effects' = <<"broadcast_warning">>
                 /\ shutdownPc' = "broadcast_warning"
                 /\ UNCHANGED response
            ELSE /\ response' = AssertionFailed("shutdown")
                 /\ effects' = <<>>
                 /\ UNCHANGED <<notifications, shutdownPc>>
       ELSE /\ notifications' = Append(notifications,
                                       Notification("error", "Shutdown is disabled"))
            /\ effects' = <<"broadcast_error">>
            /\ shutdownPc' = "broadcast_error"
            /\ UNCHANGED response
    /\ UNCHANGED <<enable_shutdown, uvicorn_server, uvicorn_loop, asyncio_tasks, jobs,
                   themes, exited, interrupt, callVars>>

\* The warning has been broadcast: the tasks are cancelled, force_exit is set,
\* and uvicorn_server.shutdown() is awaited
ShutdownCancel ==
    /\ ~exited
    /\ shutdownPc = "broadcast_warning"
    /\ asyncio_tasks' = cancel_tasks(asyncio_tasks)
    /\ uvicorn_server' = [uvicorn_server EXCEPT !.force_exit = TRUE]
    /\ effects' = effects \o [k \in 1..Len(asyncio_tasks) |-> "cancel"]
                          \o <<"force_exit">>
    /\ shutdownPc' = "server_shutdown"
    /\ UNCHANGED <<enable_shutdown, uvicorn_loop, jobs, themes, notifications,
                   shutdowns, exited, response, interrupt, callVars>>

\* The loop stopped before the server's shutdown is awaited
ShutdownExit_StopFirst ==
    /\ ~exited
    /\ shutdownPc = "server_shutdown"
    /\ uvicorn_server' = [uvicorn_server EXCEPT !.down = TRUE]
    /\ shutdownPc' = "idle"
    /\ IF uvicorn_loop.exists
       THEN /\ uvicorn_loop' = [uvicorn_loop EXCEPT !.stopped = TRUE]
            /\ exited' = TRUE
            /\ effects' = effects \o <<"loop_stop", "server_shutdown", "exit">>
            /\ UNCHANGED response
       ELSE /\ response' = AssertionFailed("shutdown")
            /\ effects' = effects \o <<"server_shutdown">>
            /\ UNCHANGED <<uvicorn_loop, exited>>
    /\ UNCHANGED <<enable_shutdown, asyncio_tasks, jobs, themes, notifications,
                   shutdowns, interrupt, callVars>>

\* uvicorn_server.shutdown() has completed: the loop is stopped and sys.exit(0)
\* called, or the assertion on the loop fails
ShutdownExit ==
    /\ ~exited
    /\ shutdownPc = "server_shutdown"
    /\ uvicorn_server' = [uvicorn_server EXCEPT !.down = TRUE]
    /\ shutdownPc' = "idle"
    /\ IF uvicorn_loop.exists
       THEN /\ uvicorn_loop' = [uvicorn_loop EXCEPT !.stopped = TRUE]
            /\ exited' = TRUE
            /\ effects' = effects \o <<"server_shutdown", "loop_stop", "exit">>
            /\ UNCHANGED response
       ELSE /\ response' = AssertionFailed("shutdown")
            /\ effects' = effects \o <<"server_shutdown">>
            /\ UNCHANGED <<uvicorn_loop, exited>>
    /\ UNCHANGED <<enable_shutdown, asyncio_tasks, jobs, themes, notifications,
                   shutdowns, interrupt, callVars>>

\* Shutdown is disabled and the error has been broadcast: the message is returned
ShutdownDisabled ==
    /\ ~exited
    /\ shutdownPc = "broadcast_error"
    /\ shutdownPc' = "idle"
    /\ response' = Message("shutdown", "Shutdown is disabled")
    /\ UNCHANGED <<enable_shutdown, uvicorn_server, uvicorn_loop, asyncio_tasks, jobs,
                   themes, notifications, effects, shutdowns, exited, interrupt,
                   callVars>>

\* GET /queue-status
QueueStatus ==
    /\ ~exited
    /\ response' = [NoResponse EXCEPT !.route = "queue-status", !.jobs = jobs]
    /\ UNCHANGED <<enable_shutdown, uvicorn_server, uvicorn_loop, asyncio_tasks, jobs,
                   themes, notifications, shutdownPc, effects, shutdowns, exited,
                   interrupt, callVars>>

\* A queue-clear that also lowers the flag
QueueClear_ResetsFlag ==
    /\ ~exited
    /\ jobs' = <<>>
    /\ interrupt' = FALSE
    /\ response' = Message("queue-clear", "Queue cleared")
    /\ UNCHANGED <<enable_shutdown, uvicorn_server, uvicorn_loop, asyncio_tasks,
                   themes, notifications, shutdownPc, effects, shutdowns, exited,
                   callVars>>

\* POST /queue-clear: queue.clear()
QueueClear ==
    /\ ~exited
    /\ jobs' = <<>>
    /\ response' = Message("queue-clear", "Queue cleared")
    /\ UNCHANGED <<enable_shutdown, uvicorn_server, uvicorn_loop, asyncio_tasks,
                   themes, notifications, shutdownPc, effects, shutdowns, exited,
                   interrupt, callVars>>

RECURSIVE sorted(_)
\* files.sort()
sorted(S) ==
    IF S = {} THEN <<>>
    ELSE LET m == CHOOSE x \in S : \A y \in S : x <= y
         IN  <<m>> \o sorted(S \ {m})

\* GET /themes
Themes ==
    /\ ~exited
    /\ response' = [NoResponse EXCEPT !.route = "themes", !.files = sorted(themes)]
    /\ UNCHANGED <<enable_shutdown, uvicorn_server, uvicorn_loop, asyncio_tasks, jobs,
                   themes, notifications, shutdownPc, effects, shutdowns, exited,
                   interrupt, callVars>>

\* The server before any request: configured either way, with or without a
\* server and a loop, some tasks registered, some jobs queued, no invocation
InitRoutes ==
    /\ InitCall({Base})
    /\ enable_shutdown \in BOOLEAN
    /\ \E e \in BOOLEAN :
           uvicorn_server = [exists |-> e, force_exit |-> FALSE, down |-> FALSE]
    /\ \E e \in BOOLEAN : uvicorn_loop = [exists |-> e, stopped |-> FALSE]
    /\ \E n \in 0..MaxTasks : asyncio_tasks = [k \in 1..n |-> "pending"]
    /\ \E n \in 0..MaxJobs : jobs = [k \in 1..n |-> k]
    /\ themes \in SUBSET (1..MaxThemes)
    /\ notifications = <<>>
    /\ shutdownPc = "idle"
    /\ effects = <<>>
    /\ shutdowns = 0
    /\ exited = FALSE
    /\ response = NoResponse

NextRoutes ==
    \/ Interrupt
    \/ ShutdownBegin
    \/ ShutdownCancel
    \/ ShutdownExit
    \/ ShutdownDisabled
    \/ QueueStatus
    \/ QueueClear
    \/ Themes

SpecRoutes == InitRoutes /\ [][NextRoutes]_vars

----------------------------------------------------------------------------
(* What the claims speak of *)

\* Positions of the trace at which `op` was called
Positions(op) == {p \in 1..Len(trace) : trace[p].op = op}

\* Positions of the polls that returned True
CancelPolls == {p \in Positions("is_cancelled") : trace[p].x = 1}

Running == pc \notin {"idle", "returned", "raised"}

Finished == pc \in {"returned", "raised"}

ValidationErrors == {"prompt_type", "strength", "callback_steps", "batch_size_mismatch"}

\* The prompt batch size times the images per prompt
PromptBatch ==
    (IF args.promptKind = "list" THEN args.promptLen ELSE 1) * args.num_images_per_prompt

----------------------------------------------------------------------------
(* C1: when the cancellation predicate returns true at the poll of step k, the
   invocation has returned the null result, the codec has decoded nothing,
   nothing of a step after k has run, and the progress callback (when one was
   supplied) has been called exactly once for each multiple of callback_steps
   in 0..k, in order, and for no other step. *)
C1_CancelReturnsNull ==
    \A p \in CancelPolls :
        LET k == trace[p].step
            c == args.callback_steps
            cbs == Calls(trace, "callback")
        IN  /\ k < Len(timesteps)
            /\ pc = "returned"
            /\ result = NoneResult
            /\ "vae_decode" \notin Ops(trace)
            /\ p = Len(trace)
            /\ \A q \in 1..Len(trace) : trace[q].step <= k
            /\ latents.ver = k + 1
            /\ Len(Calls(trace, "unet")) = k + 1
            /\ IF args.hasCallback
               THEN /\ Len(cbs) = Cardinality({j \in 0..k : j % c = 0})
                    /\ \A n \in 1..Len(cbs) : cbs[n].step = (n - 1) * c
               ELSE cbs = <<>>

C1_Witness ==
    \E p \in CancelPolls :
        /\ trace[p].step >= 1
        /\ trace[p].step + 1 < Len(timesteps)
        /\ args.hasCallback
        /\ pc = "returned"

(* C2: the cancellation predicate is polled only at steps i with
   i mod callback_steps = 0, only after everything of step i has run and before
   anything of a later step, at most once per step; in the loop of the
   discrete variant every such step whose body has ended was polled, with or
   without a progress callback; and the null result is returned only by a poll
   that returned true, so a flag raised between polls changes nothing before
   the next poll. *)
C2_PollGranularity ==
    /\ \A p \in Positions("is_cancelled") :
           LET s == trace[p].step
           IN  /\ s % args.callback_steps = 0
               /\ \E q \in 1..(p - 1) :
                      trace[q].op = "scheduler_step" /\ trace[q].step = s
               /\ \A q \in 1..(p - 1) : trace[q].step <= s
               /\ \A q \in (p + 1)..Len(trace) : trace[q].step \notin 0..s
               /\ \A q \in Positions("is_cancelled") : q # p => trace[q].step # s
               /\ (p < Len(trace) => trace[p].x = 0)
    /\ (~args.kdiffusion /\ args.hasCancel) =>
           \A s \in 0..(loopIdx - 1) :
               s % args.callback_steps = 0 =>
                   \E p \in Positions("is_cancelled") : trace[p].step = s
    /\ (pc = "returned" /\ result = NoneResult) => Len(trace) \in CancelPolls

C2_Witness ==
    /\ interrupt
    /\ pc = "denoise"
    /\ loopIdx = 2
    /\ args.callback_steps = 2
    /\ args.hasCancel
    /\ ~args.hasCallback
    /\ \E p \in Positions("is_cancelled") : trace[p].step = 0 /\ trace[p].x = 0

(* C3: when the loop of the discrete variant has ended without cancellation,
   the progress callback has been called exactly once for each step
   0, c, 2c, ... below N, in increasing order, with the step index, the
   schedule's timestep of that step and the latent that step produced; and
   every poll of the cancellation predicate comes right after the callback of
   the same step. *)
C3_CallbackSchedule ==
    /\ (~args.kdiffusion /\ args.hasCallback
        /\ (pc = "post" \/ (pc = "returned" /\ result # NoneResult))) =>
           LET N == Len(timesteps)
               c == args.callback_steps
               cbs == Calls(trace, "callback")
           IN  /\ Len(cbs) = (N + c - 1) \div c
               /\ \A n \in 1..Len(cbs) :
                      cbs[n] = Ev("callback", (n - 1) * c, timesteps[(n - 1) * c + 1],
                                  PromptBatch, 0, (n - 1) * c + 1)
    /\ args.hasCallback =>
           \A p \in Positions("is_cancelled") :
               /\ p > 1
               /\ trace[p - 1].op = "callback"
               /\ trace[p - 1].step = trace[p].step

C3_Witness ==
    /\ ~args.kdiffusion
    /\ args.hasCallback
    /\ args.hasCancel
    /\ args.callback_steps = 2
    /\ Len(timesteps) = 3
    /\ pc = "returned"
    /\ result # NoneResult
    /\ Len(Calls(trace, "callback")) = 2

(* C4: no result carries a true content-safety flag; an invocation that was
   cancelled returned the null result, and one that returned without being
   cancelled returned the raw-latent tuple, the tuple or the output record,
   as asked for, with the flag false. *)
C4_SafetyFlagFalse ==
    /\ result.nsfw = FALSE
    /\ pc = "returned" =>
           IF CancelPolls # {}
           THEN result = NoneResult
           ELSE /\ result.kind = (IF args.output_type = "latent" THEN "latents_tuple"
                                  ELSE IF args.return_dict THEN "output" ELSE "tuple")
                /\ result.images = PromptBatch
                /\ result.nsfw = FALSE

C4_Witness ==
    /\ pc = "returned"
    /\ result.kind = "tuple"
    /\ Positions("is_cancelled") # {}

(* C5: an invocation whose prompt is neither string nor list, whose strength is
   outside [0,1], whose callback interval is missing, not an integer or not
   positive, or whose negative-prompt list differs in length from the prompt
   batch, raises that validation error, and raises it before the text
   encoder, the codec, the control adapter, the denoiser or the scheduler has
   been invoked. *)
C5_ValidationBeforeNetworks ==
    LET badPrompt == args.promptKind \notin {"str", "list"}
        badStrength == args.strength < 0 \/ args.strength > 10
        badInterval == args.cbKind # "int" \/ args.callback_steps < 1
        badNegative == /\ args.negKind = "list"
                       /\ args.negLen #
                              (IF args.promptKind = "list" THEN args.promptLen ELSE 1)
    IN  /\ (pc = "raised" /\ error \in ValidationErrors) =>
               Ops(trace) \cap NetworkOps = {}
        /\ (badPrompt \/ badStrength \/ badInterval \/ badNegative) =>
               /\ pc \in {"idle", "check", "encode", "raised"}
               /\ Ops(trace) \cap NetworkOps = {}
               /\ pc = "raised" => error \in ValidationErrors
        /\ (pc = "raised" /\ error = "prompt_type") => badPrompt
        /\ (pc = "raised" /\ error = "strength") => badStrength
        /\ (pc = "raised" /\ error = "callback_steps") => badInterval
        /\ (pc = "raised" /\ error = "batch_size_mismatch") => badNegative

C5_Witness ==
    /\ pc = "raised"
    /\ error = "batch_size_mismatch"
    /\ args.guidance_scale = 10
    /\ trace = <<>>

(* C6: the inference context entered at the start of the invocation is held
   while the invocation runs and has been exited exactly once when the
   invocation has returned or raised, whatever the exit: completion,
   cancellation, validation error or a collaborator raising. *)
C6_ContextReleasedOnce ==
    /\ pc = "idle" => (~ctxHeld /\ ctxExits = 0)
    /\ Running => (ctxHeld /\ ctxExits = 0)
    /\ Finished => (~ctxHeld /\ ctxExits = 1)

C6_Witness ==
    /\ pc = "raised"
    /\ error = "scheduler_step"
    /\ i >= 1
    /\ ~ctxHeld
    /\ ctxExits = 1

(* C7: in the external-sampler variant the cancellation predicate is honoured
   as in the discrete variant: at a sampler step taken at a polled step index
   while the predicate is true, the sampler run holds the progress callback
   and the cancellation predicate, and the step ends the invocation with the
   null result and without a decode. *)
C7_SamplerHonoursCancellation ==
    [][ (args.kdiffusion /\ args.hasCancel /\ pc = "sampler" /\ interrupt
         /\ loopIdx % args.callback_steps = 0 /\ loopIdx' = loopIdx + 1) =>
            /\ {"callback", "is_cancelled_callback"} \subseteq samplerGiven
            /\ pc' = "returned"
            /\ result' = NoneResult
            /\ "vae_decode" \notin Ops(trace') ]_vars

\* The reference image reaches the latent initialiser: an image-based start
ImageBasedStart == args.hasImage /\ ~args.hasControlnet

\* The schedule has been built
ScheduleBuilt ==
    pc \in {"latents", "setup", "loop", "denoise", "boundary", "sampler", "post",
            "returned"}

(* C8 as stated: whenever an image is supplied, the effective step count is
   min(round(requested * strength), requested) and the schedule starts at
   offset requested - effective. *)
C8_StrengthWhenImageSupplied ==
    (ScheduleBuilt /\ args.hasImage) =>
        LET n == args.num_inference_steps
            eff == Min(Round10(n * args.strength), n)
        IN  /\ num_inference_steps = eff
            /\ timesteps = SubSeq(scheduler_timesteps(n), n - eff + 1, n)

(* C8, amended: whenever a reference image is supplied and no control adapter
   is configured, the effective step count is
   min(round(requested * strength), requested) and the schedule is the
   requested schedule from offset requested - effective on, so effective +
   offset = requested; strength 1.0 gives every requested step from offset 0,
   and 50 steps at strength 0.8 give 40 steps from offset 10; when no image is
   supplied the effective step count is the requested one for every
   strength. *)
C8_EffectiveSteps ==
    ScheduleBuilt =>
        LET n == args.num_inference_steps
            full == scheduler_timesteps(n)
            eff == Min(Round10(n * args.strength), n)
        IN  /\ ImageBasedStart =>
                   /\ num_inference_steps = eff
                   /\ Len(timesteps) = eff
                   /\ \A k \in 1..eff : timesteps[k] = full[n - eff + k]
                   /\ num_inference_steps + (n - Len(timesteps)) = n
            /\ (ImageBasedStart /\ args.strength = 10) =>
                   (num_inference_steps = n /\ timesteps = full)
            /\ (ImageBasedStart /\ n = 50 /\ args.strength = 8) =>
                   /\ num_inference_steps = 40
                   /\ Len(timesteps) = 40
                   /\ timesteps[1] = full[11]
            /\ ~args.hasImage => (num_inference_steps = n /\ timesteps = full)

C8_Witness ==
    /\ pc = "latents"
    /\ ImageBasedStart
    /\ args.num_inference_steps = 50
    /\ args.strength = 8
    /\ num_inference_steps = 40
    /\ timesteps[1] = 40

(* C9: with an image-based start and strength 0 the schedule is empty: the
   loop body is never entered, the denoiser, the control adapter, the
   scheduler's step, the progress callback and the cancellation predicate are
   never invoked, and the latent that reaches post-processing and the result
   is the initial latent, with no step applied. *)
C9_ZeroStrength ==
    (ImageBasedStart /\ args.strength = 0) =>
        /\ pc \notin {"denoise", "boundary"}
        /\ loopIdx = 0
        /\ Ops(trace) \cap {"unet", "unet_sag", "controlnet", "scale_model_input",
                             "scheduler_step", "callback", "is_cancelled"} = {}
        /\ ScheduleBuilt => (num_inference_steps = 0 /\ timesteps = <<>>)
        /\ pc \in {"loop", "sampler", "post", "returned"} =>
               latents = [batch |-> PromptBatch, ver |-> 0]
        /\ pc = "returned" =>
               (result # NoneResult /\ result.ver = 0 /\ result.images = PromptBatch)

C9_Witness ==
    /\ ImageBasedStart
    /\ args.strength = 0
    /\ args.num_inference_steps = 3
    /\ ~args.kdiffusion
    /\ args.hasCallback
    /\ args.hasCancel
    /\ interrupt
    /\ pc = "returned"

(* C10: with guidance_scale <= 1.0 the denoiser, the control adapter and
   the scheduler's input scaling are called at every step on a batch of
   exactly batch_size * images_per_prompt, the text encoder is asked for no
   unconditional embedding and the embedding batch is not doubled; with
   guidance_scale > 1.0 the denoiser's base call of every step has twice that
   batch, in latents and in embeddings; in both cases the latent a step
   returns has the undoubled batch. *)
C10_GuidanceBatch ==
    LET B == PromptBatch
        off == args.guidance_scale <= 10
        D == IF off THEN B ELSE 2 * B
    IN  /\ \A p \in Positions("unet") : trace[p].batch = D /\ trace[p].cond = D
        /\ off => \A p \in 1..Len(trace) :
                      trace[p].op \in {"unet_sag", "controlnet", "scale_model_input"}
                          => trace[p].batch = B
        /\ off => \A p \in Positions("text_encoder") : trace[p].cond = 0
        /\ pc \notin {"idle", "check", "encode", "raised"} => embBatch = D
        /\ pc \in {"setup", "loop", "denoise", "boundary", "sampler", "post",
                   "returned"} => latents.batch = B
        /\ Len(Calls(trace, "unet")) >= latents.ver

C10_Witness ==
    /\ args.guidance_scale = 10
    /\ PromptBatch = 4
    /\ ~args.kdiffusion
    /\ pc = "returned"
    /\ Len(Calls(trace, "unet")) = 2

\* Positions of the trace at which `op` was called on the latent of step v
\* (the latent that v steps have been applied to)
StepCalls(op, v) == {p \in Positions(op) : trace[p].x = v}

(* C11: with self_attention_scale = 0 the denoiser is invoked exactly once for
   every executed step, on a batch doubled exactly when classifier-free
   guidance is on, never on a degraded latent, and neither the
   attention-storing processor nor the map-size hook is installed; with
   self_attention_scale > 0 it is invoked exactly twice for every executed
   step: the base call, then one call on the degraded latent. *)
C11_DenoiserCallsPerStep ==
    LET sag == args.self_attention_scale > 0
        D == IF args.guidance_scale > 10 THEN 2 * PromptBatch ELSE PromptBatch
    IN  /\ \A v \in 0..(latents.ver - 1) :
               /\ Cardinality(StepCalls("unet", v)) = 1
               /\ Cardinality(StepCalls("unet_sag", v)) = (IF sag THEN 1 ELSE 0)
               /\ \A p \in StepCalls("unet", v) :
                      /\ trace[p].batch = D
                      /\ \A q \in StepCalls("unet_sag", v) : q > p
        /\ Cardinality(Positions("unet")) \in {latents.ver, latents.ver + 1}
        /\ Cardinality(Positions("unet_sag")) <= Cardinality(Positions("unet"))
        /\ ~sag => (Positions("unet_sag") = {} /\ ~sagProcessor /\ ~hookRegistered)

C11_Witness ==
    /\ args.self_attention_scale > 0
    /\ args.guidance_scale > 10
    /\ ~args.kdiffusion
    /\ pc = "returned"
    /\ latents.ver = 2
    /\ Cardinality(Positions("unet")) = 2
    /\ Cardinality(Positions("unet_sag")) = 2

(* C12: the working latent has batch dimension batch_size * images_per_prompt
   when it is initialised and after every step, with or without
   classifier-free guidance doubling the denoiser's input: the scheduler's
   step, the progress callback and the decode see that batch, and a completed
   run returns exactly that many images; a single prompt with two images per
   prompt at guidance_scale 7.5 returns exactly 2. *)
C12_LatentBatch ==
    LET B == (IF args.promptKind = "list" THEN args.promptLen ELSE 1)
                 * args.num_images_per_prompt
    IN  /\ pc \in {"setup", "loop", "denoise", "boundary", "sampler", "post",
                   "returned"} => latents.batch = B
        /\ \A p \in 1..Len(trace) :
               trace[p].op \in {"scheduler_step", "callback", "vae_decode",
                                "do_inference"} => trace[p].batch = B
        /\ (pc = "returned" /\ result # NoneResult) =>
               /\ result.images = B
               /\ result.ver = Len(timesteps)
               /\ (args.promptKind = "str" /\ args.num_images_per_prompt = 2
                   /\ args.guidance_scale = 75) => result.images = 2

C12_Witness ==
    /\ args.promptKind = "str"
    /\ args.num_images_per_prompt = 2
    /\ args.guidance_scale = 75
    /\ args.output_type = "pil"
    /\ pc = "returned"
    /\ result.images = 2
    /\ latents.ver = 2
    /\ \E p \in Positions("unet") : trace[p].batch = 4

\* The same call with the same arguments; what a poll of the cancellation
\* predicate returned is the predicate's answer, no argument of the call
SameCall(e1, e2) ==
    IF e1.op = "is_cancelled"
    THEN [e1 EXCEPT !.x = 0] = [e2 EXCEPT !.x = 0]
    ELSE e1 = e2

(* C13: a second invocation with the same arguments on the pipeline object the
   first one left makes the same collaborator calls with the same arguments,
   in the same order, as the first one for as long as the collaborators and
   the cancellation predicate answer alike (so the two call sequences first
   differ, if at all, where one of them has ended); when both have returned
   after the same calls and answers they return the same result and latent,
   and leave the same unet and vae references, attention processor and
   scheduler schedule on the object, with no hook registered. *)
C13_SecondInvocationAlike ==
    run = 2 =>
        LET t1 == first.trace
            t2 == trace
            common == 1..Min(Len(t1), Len(t2))
        IN  /\ \A p \in common :
                   (\A q \in 1..(p - 1) : t1[q] = t2[q]) => SameCall(t1[p], t2[p])
            /\ (Finished /\ pc = first.pc /\ t1 = t2) =>
                   /\ result = first.result
                   /\ error = first.error
                   /\ latents = first.latents
                   /\ content = first.content
                   /\ selfUnet = first.selfUnet
                   /\ selfVae = first.selfVae
                   /\ sagProcessor = first.sagProcessor
                   /\ schedulerTimesteps = first.schedulerTimesteps
                   /\ ~hookRegistered

C13_Witness ==
    /\ run = 2
    /\ pc = "returned"
    /\ first.pc = "returned"
    /\ trace = first.trace
    /\ result = first.result
    /\ result # NoneResult
    /\ args.kdiffusion
    /\ args.hasImage /\ ~args.hasControlnet
    /\ args.strength = 5
    /\ args.num_inference_steps = 2
    /\ args.self_attention_scale > 0
    /\ latents.ver = 1

\* What a latent of content c holds at the positions whose mask value is b
Value(c, b) ==
    IF b = 0 /\ c.at0[1] = "known"
    THEN [kind |-> "known", origin |-> "image", steps |-> <<>>, blended |-> FALSE,
          level |-> c.at0[2]]
    ELSE [kind |-> "x", origin |-> c.origin, steps |-> c.steps,
          blended |-> c.blended, level |-> 0]

\* The clean known-region latent
CleanKnown ==
    [kind |-> "known", origin |-> "image", steps |-> <<>>, blended |-> FALSE,
     level |-> 0]

\* A mask-guided run has completed
MaskedRunCompleted ==
    /\ args.hasImage /\ args.hasMask /\ args.in_channels = 4
    /\ pc = "returned"
    /\ result # NoneResult

(* C14 as stated: for a mask that is zero everywhere the latent a completed
   mask-guided run ends with equals the one the image-to-image run without a
   mask ends with on the same inputs, and for a mask that is one everywhere it
   equals the one the from-noise run ends with. *)
C14_MaskInvariant ==
    (MaskedRunCompleted /\ Len(timesteps) >= 1) =>
        /\ args.maskKind = "zeros" =>
               Value(content, 0) = Value(run_content([args EXCEPT !.hasMask = FALSE]), 1)
        /\ args.maskKind = "ones" =>
               Value(content, 1) =
                   Value(run_content([args EXCEPT !.hasMask = FALSE,
                                                  !.hasImage = FALSE]), 1)

(* C14, amended: for a mask that is one everywhere the latent a completed
   mask-guided run (4-channel denoiser) ends with equals the one the
   image-to-image run without a mask ends with on the same inputs, and no
   known-region content has entered it; for a mask that is zero everywhere it
   equals, after at least one step, the clean known-region latent of the
   reference image. *)
C14_MaskInvariantAmended ==
    MaskedRunCompleted =>
        /\ args.maskKind = "ones" =>
               /\ Value(content, 1) =
                      Value(run_content([args EXCEPT !.hasMask = FALSE]), 1)
               /\ ~content.blended
        /\ (args.maskKind = "zeros" /\ Len(timesteps) >= 1) =>
               Value(content, 0) = CleanKnown

C14_Witness ==
    /\ MaskedRunCompleted
    /\ args.maskKind = "ones"
    /\ args.strength = 5
    /\ args.num_inference_steps = 3
    /\ content.steps = <<2, 1>>
    /\ content.origin = "image"

(* C15: when a mask-guided run with a 4-channel denoiser and at least one step
   has completed its loop, the latent holds the clean, un-noised known-region
   latent at every position where the mask is 0 and the output of the last
   step of the schedule at every position where the mask is 1. *)
C15_MaskedFinalLatent ==
    (args.hasImage /\ args.hasMask /\ args.in_channels = 4 /\ Len(timesteps) >= 1
     /\ (pc = "post" \/ (pc = "returned" /\ result # NoneResult))) =>
        /\ 0 \in MaskValues(args) => Value(content, 0) = CleanKnown
        /\ 1 \in MaskValues(args) =>
               /\ Value(content, 1).kind = "x"
               /\ Value(content, 1).steps = timesteps
               /\ latents.ver = Len(timesteps)

C15_Witness ==
    /\ args.hasImage /\ args.hasMask /\ args.in_channels = 4
    /\ args.maskKind = "mixed"
    /\ Len(timesteps) = 3
    /\ pc = "returned"
    /\ result # NoneResult
    /\ content.at0 = <<"known", 0>>
    /\ content.blended

(* C16: in an invocation that has passed _check_inputs, a negative-prompt list
   whose length differs from the prompt batch size (1 for a string prompt,
   len(prompt) for a list) raises the batch-size-mismatch error, before the
   text encoder is called, with classifier-free guidance on or off; and that
   error is raised for nothing else: a missing or single-string negative
   prompt is broadcast to the prompt batch size and passes. *)
C16_NegativePromptBatch ==
    LET bs == IF args.promptKind = "list" THEN args.promptLen ELSE 1
        mismatch == args.negKind = "list" /\ args.negLen # bs
        passedCheck == /\ pc \notin {"idle", "check"}
                       /\ error \notin {"prompt_type", "strength", "callback_steps"}
    IN  /\ (mismatch /\ passedCheck /\ pc # "encode") =>
               /\ pc = "raised"
               /\ error = "batch_size_mismatch"
               /\ trace = <<>>
        /\ error = "batch_size_mismatch" => mismatch
        /\ (args.negKind \in {"none", "str"} /\ passedCheck) =>
               /\ error # "batch_size_mismatch"
               /\ \A p \in Positions("text_encoder") :
                      /\ trace[p].batch = bs
                      /\ trace[p].cond = (IF args.guidance_scale > 10 THEN bs ELSE 0)

C16_Witness ==
    /\ args.promptKind = "list"
    /\ args.promptLen = 2
    /\ args.negKind = "list"
    /\ args.negLen = 1
    /\ args.guidance_scale <= 10
    /\ pc = "raised"
    /\ error = "batch_size_mismatch"

(* C17: an invocation with a requested step count <= 0 never reaches the
   denoising loop and never invokes the denoiser: once its arguments have been
   looked at and the schedule asked for, it has failed, and with an
   invalid-argument error unless a collaborator failed first. *)
C17_StepCountValidated ==
    args.num_inference_steps <= 0 =>
        /\ pc \notin {"loop", "denoise", "boundary", "sampler", "post", "returned"}
        /\ "unet" \notin Ops(trace)
        /\ (pc = "raised" /\ error \notin NetworkOps) =>
               error \in ValidationErrors \cup {"invalid_argument"}

\* The collaborators called within a step, and the codec's decode
StepCollaborators == {"unet", "unet_sag", "controlnet", "scheduler_step",
                      "scale_model_input", "vae_decode"}

(* C18: when the denoiser, the control adapter, the scheduler or the codec has
   raised, the invocation has raised that collaborator's exception: the failed
   call is the last call made and was made once, the latent is the one the
   last completed step left, no progress callback or cancellation poll was
   made for the failed step or a later one, nothing was decoded unless the
   decode is what failed, and nothing was returned; and from then on no
   further call is made and nothing is returned. *)
C18_FailurePropagates ==
    /\ [](  (pc = "raised" /\ error \in StepCollaborators) =>
              LET e == trace[Len(trace)]
              IN  /\ e.op = error
                  /\ \A p \in 1..(Len(trace) - 1) : trace[p] # e
                  /\ e.op # "controlnet" => latents.ver = e.x
                  /\ (~args.kdiffusion /\ e.op # "vae_decode") => latents.ver = e.step
                  /\ error # "vae_decode" =>
                         /\ "vae_decode" \notin Ops(trace)
                         /\ ~args.kdiffusion =>
                                \A p \in 1..Len(trace) :
                                    trace[p].op \in {"callback", "is_cancelled"}
                                        => trace[p].step < e.step
                  /\ result = NoneResult
                  /\ ~ctxHeld )
    /\ [][ pc = "raised" =>
               (pc' = "raised" /\ trace' = trace /\ result' = result
                /\ error' = error /\ latents' = latents) ]_vars

C18_Witness ==
    /\ pc = "raised"
    /\ error = "controlnet"
    /\ ~args.kdiffusion
    /\ args.hasCallback
    /\ trace[Len(trace)].step = 1
    /\ interrupt
    /\ \E p \in Positions("callback") : trace[p].step = 0

(* C19: the codec's decode is never invoked twice; an invocation that has
   returned a result with a pixel output type has invoked it exactly once, as
   its last call, on the latent of the last step; an invocation that asked for
   raw latents or that was cancelled has not invoked it; and the raw latent
   returned is the one the last executed step produced. *)
C19_DecodeOnce ==
    LET decodes == Positions("vae_decode")
    IN  /\ Cardinality(decodes) <= 1
        /\ args.output_type = "latent" => decodes = {}
        /\ pc # "returned" => (decodes = {} \/ pc = "raised")
        /\ (pc = "returned" /\ result = NoneResult) => decodes = {}
        /\ (pc = "returned" /\ result # NoneResult /\ args.output_type # "latent") =>
               /\ decodes = {Len(trace)}
               /\ result.kind \in {"tuple", "output"}
               /\ trace[Len(trace)].x = Len(timesteps)
               /\ trace[Len(trace)].batch = latents.batch
        /\ (pc = "returned" /\ result # NoneResult /\ args.output_type = "latent") =>
               /\ result.kind = "latents_tuple"
               /\ result.ver = latents.ver
               /\ result.ver = Len(timesteps)
               /\ result.ver = Cardinality(Positions("unet"))

C19_Witness ==
    /\ pc = "returned"
    /\ args.output_type = "latent"
    /\ result.kind = "latents_tuple"
    /\ result.ver = 3
    /\ interrupt
    /\ Positions("is_cancelled") # {}
    /\ Positions("vae_decode") = {}

(* C20: in the discrete-scheduler variant every invocation ends: it returns
   a result (COMPLETE), returns the null result (CANCELLED), or raises, and it
   raises only a validation error or the exception of a collaborator; the
   denoiser's base calls are those of steps 0, 1, 2, ... in schedule order,
   each once and none skipped, at most N = effective step count of them;
   COMPLETE is reached only after step N-1, CANCELLED only by a poll that
   returned true; and nothing is executed after the invocation has ended. *)
C20_LoopTerminates ==
    /\ <>(pc \in {"returned", "raised"})
    /\ [](  ~args.kdiffusion =>
              LET N == Len(timesteps)
                  base == Calls(trace, "unet")
              IN  /\ Len(base) <= N
                  /\ \A n \in 1..Len(base) :
                         base[n].step = n - 1 /\ base[n].t = timesteps[n]
                  /\ loopIdx <= N
                  /\ (pc = "returned" /\ result # NoneResult) =>
                         (Len(base) = N /\ latents.ver = N /\ loopIdx = N
                          /\ CancelPolls = {})
                  /\ (pc = "returned" /\ result = NoneResult) =>
                         (CancelPolls = {Len(trace)} /\ Len(base) = loopIdx + 1)
                  /\ pc = "raised" => error \in ValidationErrors \cup NetworkOps )
    /\ [][ Finished =>
               (pc' = pc /\ trace' = trace /\ loopIdx' = loopIdx
                /\ latents' = latents /\ result' = result) ]_vars

C20_Witness ==
    /\ ~args.kdiffusion
    /\ args.hasCancel
    /\ args.callback_steps = 2
    /\ ~interrupt
    /\ Len(timesteps) = 3
    /\ loopIdx = 3
    /\ pc = "returned"
    /\ result # NoneResult
    /\ Cardinality(Positions("is_cancelled")) = 2

----------------------------------------------------------------------------
(* C21: whenever do_denoise, called by the external sampler, reads the step
   index (to select the control keep-weight or to decide whether the mask
   compositor is on the final step), that index is bound and equals the
   sampler's current internal step index, as it does in the discrete
   variant. *)
C21_StepIndexIsSamplerStep ==
    [][(pc = "sampler" /\ (args.hasControlnet \/ blends(args))
        /\ (loopIdx' = loopIdx + 1 \/ error' = "NameError"))
           => (i = loopIdx /\ error' # "NameError")]_vars

(* C22: in a mask-guided run with a 4-channel denoiser, when step i of a
   schedule of N steps has been made, the known-region latent blended in was
   the clean one noised again, with the stored noise, to schedule[i+1] when
   i < N-1 (one re-noising per such step, after the scheduler's step and never
   to schedule[i]) and the clean one, with no re-noising, when i = N-1; the
   latent the step leaves holds that known-region latent where the mask is 0
   and the step's output where the mask is 1. *)
C22_KnownRegionRenoised ==
    (args.hasImage /\ blends(args)) =>
        LET N == Len(timesteps)
            renoise == {p \in Positions("add_noise") : trace[p].step >= 0}
        IN  /\ \A p \in renoise :
                   LET s == trace[p].step
                   IN  /\ s < N - 1
                       /\ trace[p].t = timesteps[s + 2]
                       /\ trace[p].t # timesteps[s + 1]
                       /\ trace[p - 1].op = "scheduler_step"
                       /\ trace[p - 1].step = s
                       /\ \A q \in renoise : q # p => trace[q].step # s
            /\ pc = "boundary" =>
                   /\ i = loopIdx
                   /\ (i < N - 1) =>
                          /\ \E p \in renoise : trace[p].step = i
                          /\ content.at0 = <<"known", timesteps[i + 2]>>
                   /\ (i = N - 1) =>
                          /\ \A p \in renoise : trace[p].step # i
                          /\ content.at0 = <<"known", 0>>
                          /\ Value(content, 0) = CleanKnown
                   /\ Value(content, 0).kind = "known"
                   /\ Value(content, 0).level = noise_timestep(i, timesteps)
                   /\ Value(content, 1).kind = "x"
                   /\ Value(content, 1).steps = SubSeq(timesteps, 1, i + 1)

C22_Witness ==
    /\ args.hasImage /\ blends(args)
    /\ pc = "boundary"
    /\ Len(timesteps) = 3
    /\ i = 1
    /\ content.at0 = <<"known", 1>>
    /\ Cardinality({p \in Positions("add_noise") : trace[p].step >= 0}) = 2

(* C23: the mask compositor is applied to a step exactly when a mask was
   supplied and the denoiser has 4 input channels; with a mask and a 9-channel
   denoiser the mask and the masked-image latents are concatenated onto the
   denoiser's input before every denoiser call and nothing is composited; no
   run both concatenates and composites; with no mask and a 4-channel denoiser
   neither happens. *)
C23_MaskRouting ==
    LET cats == Positions("cat_mask")
        renoise == {p \in Positions("add_noise") : trace[p].step >= 0}
        composited == content.at0[1] = "known"
    IN  /\ cats # {} => (args.hasMask /\ args.in_channels = 9)
        /\ (composited \/ renoise # {}) => (args.hasMask /\ args.in_channels = 4)
        /\ ~(cats # {} /\ (composited \/ renoise # {}))
        /\ (args.hasMask /\ args.in_channels = 9) =>
               \A p \in Positions("unet") :
                   \E q \in cats :
                       /\ q < p
                       /\ trace[q].step = trace[p].step
                       /\ trace[q].x = trace[p].x
                       /\ trace[q].batch = trace[p].batch
        /\ (args.hasMask /\ args.in_channels = 4 /\ latents.ver >= 1) => composited
        /\ (args.hasMask /\ args.in_channels = 4 /\ pc = "boundary"
            /\ loopIdx < Len(timesteps) - 1) =>
               \E p \in renoise : trace[p].step = loopIdx
        /\ (~args.hasMask /\ args.in_channels = 4) =>
               (cats = {} /\ ~composited /\ renoise = {})

C23_Witness ==
    /\ args.hasMask /\ args.in_channels = 9
    /\ Len(timesteps) = 3
    /\ pc = "returned"
    /\ result # NoneResult
    /\ Cardinality(Positions("cat_mask")) = 3
    /\ Cardinality(Positions("unet")) = 3
    /\ content.at0 = <<"x", 0>>

(* C24: with classifier-free guidance on, the embedding batch, the denoiser's
   input and hence its prediction have batch exactly
   2 * batch_size * images_per_prompt, the embeddings (and with them the
   prediction) laid out [unconditional, conditional]; the prediction is split
   in that order and combined as uncond + guidance_scale * (cond - uncond),
   and what the step works on and returns has batch
   batch_size * images_per_prompt. *)
C24_GuidanceLayout ==
    do_classifier_free_guidance(args) =>
        LET B == PromptBatch
        IN  /\ embLayout # <<>> =>
                   /\ embLayout = <<"uncond", "text">>
                   /\ embBatch = 2 * B
                   /\ \A p \in Positions("text_encoder") :
                          trace[p].batch * args.num_images_per_prompt = B
            /\ \A p \in Positions("unet") :
                   /\ trace[p].batch = 2 * B
                   /\ trace[p].cond = 2 * B
                   /\ \E q \in 1..(p - 1) :
                          /\ trace[q].op = "scale_model_input"
                          /\ trace[q].step = trace[p].step
                          /\ trace[q].batch = 2 * B
            /\ \A p \in Positions("scheduler_step") : trace[p].batch = B
            /\ noise_pred_term # NoPred =>
                   /\ noise_pred_term.base = "uncond"
                   /\ noise_pred_term.scale = args.guidance_scale
                   /\ noise_pred_term.plus = "text"
                   /\ noise_pred_term.minus = "uncond"
                   /\ latents.batch = B
                   /\ latents.ver >= 1

C24_Witness ==
    /\ do_classifier_free_guidance(args)
    /\ PromptBatch = 4
    /\ args.promptKind = "list"
    /\ args.num_images_per_prompt = 2
    /\ noise_pred_term.scale = 75
    /\ noise_pred_term.plus = "text"
    /\ latents = [batch |-> 4, ver |-> 2]
    /\ pc = "returned"

(* C25: with a control adapter, guess mode in force and classifier-free
   guidance on, the adapter is invoked once before every denoiser call, on the
   un-doubled latent and with the conditional half of the embeddings only, and
   every residual is extended with a block of zeros placed before it, so that
   the residuals have the doubled batch of the denoiser's input; in every
   other configuration with a control adapter the adapter is given the batch
   and the embeddings the denoiser is given and the residuals are passed
   unpadded. Guess mode is in force exactly when the caller asked for it or
   the adapter's global_pool_conditions is true. *)
C25_GuessModeAdapter ==
    args.hasControlnet =>
        LET B == PromptBatch
            cfg == do_classifier_free_guidance(args)
            D == IF cfg THEN 2 * B ELSE B
            gm == args.guess_mode \/ args.global_pool_conditions
        IN  /\ \A p \in Positions("controlnet") :
                   /\ guess_mode = gm
                   /\ IF gm /\ cfg
                      THEN /\ trace[p].batch = B
                           /\ trace[p].cond = B
                           /\ controlnet_prompt_blocks(args, guess_mode, embLayout)
                                  = <<"text">>
                           /\ residual_blocks(args, guess_mode) = <<"zeros", "residual">>
                           /\ p < Len(trace) =>
                                  /\ trace[p + 1].op = "zero_pad"
                                  /\ trace[p + 1].batch = D
                           /\ p + 1 < Len(trace) =>
                                  /\ trace[p + 2].op = "unet"
                                  /\ trace[p + 2].batch = D
                      ELSE /\ trace[p].batch = D
                           /\ trace[p].cond = embBatch
                           /\ controlnet_prompt_blocks(args, guess_mode, embLayout)
                                  = embLayout
                           /\ residual_blocks(args, guess_mode) = <<"residual">>
                           /\ p < Len(trace) =>
                                  /\ trace[p + 1].op = "unet"
                                  /\ trace[p + 1].batch = trace[p].batch
                                  /\ trace[p + 1].cond = trace[p].cond
            /\ \A p \in Positions("zero_pad") : gm /\ cfg
            /\ \A p \in Positions("unet") :
                   /\ p > 2
                   /\ trace[p - 1].op = (IF gm /\ cfg THEN "zero_pad" ELSE "controlnet")
                   /\ (gm /\ cfg) => trace[p - 2].op = "controlnet"

C25_Witness ==
    /\ args.hasControlnet
    /\ ~args.guess_mode
    /\ args.global_pool_conditions
    /\ guess_mode
    /\ do_classifier_free_guidance(args)
    /\ PromptBatch = 2
    /\ ~args.kdiffusion
    /\ pc = "returned"
    /\ result # NoneResult
    /\ Cardinality(Positions("controlnet")) = 3
    /\ Cardinality(Positions("zero_pad")) = 3
    /\ \A p \in Positions("controlnet") : trace[p].batch = 2 /\ trace[p].cond = 2

(* C26: with a control adapter, once the keep-weight list is built it has
   exactly one entry per timestep of the schedule and every entry is 1.0; in
   the discrete variant the adapter is therefore called at every step with the
   weight 1.0 of that step, so that the conditioning scale it is passed is the
   structural conditioning scale itself. *)
C26_KeepWeights ==
    args.hasControlnet =>
        /\ pc \in {"loop", "denoise", "boundary", "sampler", "post", "returned"} =>
               /\ Len(controlnet_keep) = Len(timesteps)
               /\ Len(timesteps) = args.num_inference_steps
               /\ \A k \in 1..Len(controlnet_keep) : controlnet_keep[k] = 10
        /\ ~args.kdiffusion =>
               \A p \in Positions("controlnet") :
                   /\ trace[p].step \in 0..(Len(timesteps) - 1)
                   /\ trace[p].t = timesteps[trace[p].step + 1]
                   /\ trace[p].x = controlnet_keep[trace[p].step + 1]
                   /\ trace[p].x = 10

C26_Witness ==
    /\ args.hasControlnet
    /\ ~args.kdiffusion
    /\ controlnet_keep = <<10, 10, 10>>
    /\ Len(timesteps) = 3
    /\ pc = "boundary"
    /\ i = 2
    /\ \E p \in Positions("controlnet") : trace[p].step = 2 /\ trace[p].x = 10

(* C27: the step strategy is fixed for the invocation. With a discrete
   scheduler the scheduler's step is called exactly once in every do_denoise
   that runs to its end, after the denoiser calls whose predictions are
   combined and before the re-noising of the mask compositor, do_denoise
   returns the scheduler's output, and the loop of __call__ drives the steps:
   the external sampler is never invoked. With the external-sampler adapter
   the scheduler's step is never called, do_denoise returns the guided
   prediction, and the loop of __call__ is never entered: every step is made
   inside the sampler's run. *)
C27_StepStrategyFixed ==
    LET steps == Positions("scheduler_step")
    IN  IF ~args.kdiffusion
        THEN /\ pc # "sampler"
             /\ samplerGiven = {}
             /\ Positions("do_inference") = {}
             /\ latents.ver > 0 => do_denoise_returns(args) = "prev_sample"
             /\ \A s \in 0..(latents.ver - 1) :
                    Cardinality({p \in steps : trace[p].step = s}) = 1
             /\ \A p \in steps :
                    /\ \A q \in steps : q # p => trace[q].step # trace[p].step
                    /\ \E q \in 1..(p - 1) :
                           trace[q].op = "unet" /\ trace[q].step = trace[p].step
                    /\ \A q \in 1..Len(trace) :
                           (trace[q].step = trace[p].step
                            /\ trace[q].op \in {"unet", "unet_sag", "controlnet",
                                                "scale_model_input", "cat_mask"})
                               => q < p
                    /\ \A q \in Positions("add_noise") :
                           trace[q].step = trace[p].step => q = p + 1
        ELSE /\ steps = {}
             /\ pc \notin {"denoise", "boundary"}
             /\ Positions("is_cancelled") = {}
             /\ latents.ver > 0 =>
                    /\ do_denoise_returns(args) = "noise_pred"
                    /\ Cardinality(Positions("do_inference")) = 1
                    /\ Cardinality(Positions("unet")) >= latents.ver

C27_Witness ==
    /\ args.kdiffusion
    /\ args.hasMask
    /\ Len(timesteps) = 3
    /\ latents.ver = 3
    /\ pc = "returned"
    /\ result # NoneResult
    /\ Cardinality(Positions("unet")) = 3
    /\ Positions("scheduler_step") = {}

\* The calls of the denoiser, base and degraded
DenoiserCalls == Positions("unet") \cup Positions("unet_sag")

(* C28: with self-attention guidance on, both probes are installed while the
   steps run, and every degraded call of the denoiser comes right after the
   base call of the same step on the same latent, with no other denoiser call
   in between: the attention map and the map size read to degrade the latent
   are those the base call of that step wrote, never those of a degraded call
   or of an earlier step, never unset. The degraded call is made before the
   scheduler's step of that step, on the un-doubled batch, with the
   unconditional half of the embeddings under classifier-free guidance and the
   whole embeddings otherwise, and the correction added to the prediction is
   self_attention_scale * (uncond_pred - degraded_pred), the sole prediction
   standing for uncond_pred without guidance. *)
C28_SelfAttentionGuidance ==
    do_self_attention_guidance(args) =>
        LET cfg == do_classifier_free_guidance(args)
            B == PromptBatch
        IN  /\ pc \in {"denoise", "boundary", "sampler"} =>
                   (sagProcessor /\ hookRegistered)
            /\ \A p \in Positions("unet_sag") :
                   /\ p > 1
                   /\ trace[p - 1].op = "unet"
                   /\ trace[p - 1].step = trace[p].step
                   /\ trace[p - 1].x = trace[p].x
                   /\ \A q \in DenoiserCalls :
                          (q < p /\ q # p - 1) => trace[q].x < trace[p].x
                   /\ trace[p].batch = B
                   /\ trace[p].cond = (IF cfg THEN embBatch \div 2 ELSE embBatch)
                   /\ trace[p].cond = B
                   /\ sag_cond_blocks(args, embLayout)
                          = (IF cfg THEN <<"uncond">> ELSE <<"text">>)
                   /\ \A q \in Positions("scheduler_step") :
                          trace[q].step = trace[p].step => q = p + 1
            /\ \A p \in Positions("unet") :
                   (p < Len(trace)) => trace[p + 1].op = "unet_sag"
            /\ noise_pred_term # NoPred =>
                   /\ noise_pred_term.sag_scale = args.self_attention_scale
                   /\ noise_pred_term.sag_plus = (IF cfg THEN "uncond" ELSE "text")
                   /\ noise_pred_term.sag_minus = "degraded"

C28_Witness ==
    /\ do_self_attention_guidance(args)
    /\ do_classifier_free_guidance(args)
    /\ ~args.kdiffusion
    /\ PromptBatch = 2
    /\ pc = "returned"
    /\ result # NoneResult
    /\ Cardinality(Positions("unet_sag")) = 2
    /\ \A p \in Positions("unet_sag") : trace[p].cond = 2 /\ trace[p - 1].batch = 4
    /\ noise_pred_term.sag_plus = "uncond"
    /\ noise_pred_term.sag_scale = 10

(* C29: when an invocation has ended, by returning, by cancellation or by an
   exception, neither probe it attached for self-attention guidance is still
   on the denoiser: the attention-storing processor has been taken off the
   mid-block attention and the map-size forward hook has been removed. *)
C29_ProbesDetached ==
    Finished => (~sagProcessor /\ ~hookRegistered)

(* C30: with a control adapter configured the run starts from pure noise
   whether or not an image is supplied: strength is ignored (the effective
   step count is the requested one and the schedule the whole requested
   schedule, for every strength), and the latent initialiser is given no
   reference image, so nothing is encoded and noised to start from; the
   schedule is shorter than requested only when an image is supplied and no
   control adapter is configured, and then by strength. *)
C30_ControlImageOnly ==
    LET n == args.num_inference_steps
        started == pc \in {"setup", "loop", "denoise", "boundary", "sampler", "post",
                           "returned"}
    IN  /\ (args.hasControlnet /\ ScheduleBuilt) =>
               /\ num_inference_steps = n
               /\ timesteps = scheduler_timesteps(n)
               /\ Positions("vae_encode") = {}
               /\ \A p \in Positions("add_noise") : trace[p].step >= 0
               /\ started => content.origin = "noise"
        /\ (ScheduleBuilt /\ Len(timesteps) < n) =>
               (args.hasImage /\ ~args.hasControlnet /\ args.strength < 10)
        /\ (ScheduleBuilt /\ args.hasImage /\ ~args.hasControlnet) =>
               /\ Len(timesteps) = Min(Round10(n * args.strength), n)
               /\ started =>
                      /\ content.origin = "image"
                      /\ Positions("vae_encode") # {}

C30_Witness ==
    /\ args.hasControlnet
    /\ args.hasImage
    /\ args.strength = 5
    /\ args.num_inference_steps = 3
    /\ timesteps = <<3, 2, 1>>
    /\ content.origin = "noise"
    /\ Cardinality(Positions("controlnet")) = 3
    /\ pc = "returned"
    /\ result # NoneResult

(* C31: in the discrete variant, when the cancellation predicate has returned
   true at the poll of the last step N-1 (a step with
   (N-1) mod callback_steps = 0), the invocation has returned the null result
   although every one of the N steps has been made: the denoiser and the
   scheduler's step were called N times, the latent of N steps exists, and it
   has not been decoded nor returned. *)
C31_CancelAtLastStep ==
    \A p \in CancelPolls :
        trace[p].step = Len(timesteps) - 1 =>
            LET N == Len(timesteps)
            IN  /\ ~args.kdiffusion
                /\ (N - 1) % args.callback_steps = 0
                /\ pc = "returned"
                /\ result = NoneResult
                /\ error = ""
                /\ latents.ver = N
                /\ Cardinality(Positions("unet")) = N
                /\ Cardinality(Positions("scheduler_step")) = N
                /\ \A s \in 0..(N - 1) :
                       \E q \in Positions("scheduler_step") : trace[q].step = s
                /\ Positions("vae_decode") = {}
                /\ p = Len(trace)

C31_Witness ==
    /\ \E p \in CancelPolls : trace[p].step = 2
    /\ Len(timesteps) = 3
    /\ args.callback_steps = 2
    /\ latents.ver = 3
    /\ pc = "returned"
    /\ result = NoneResult
    /\ Cardinality(Positions("scheduler_step")) = 3

(* C32: whatever comes after _check_inputs, the denoising loop included, is
   reached only with callback_steps an integer >= 1: a missing, non-integer,
   zero or negative callback_steps has been rejected by validation before any
   collaborator was called. So i mod callback_steps is never a division by
   zero, step 0 is a callback and poll step, and the first step of the loop of
   the discrete variant is followed by a poll when a cancellation predicate
   was supplied. *)
C32_CallbackStepsPositive ==
    /\ pc \notin {"idle", "check", "raised"} =>
           /\ args.cbKind = "int"
           /\ args.callback_steps >= 1
           /\ is_callback_step(0, args)
    /\ (args.cbKind # "int" \/ args.callback_steps <= 0) =>
           /\ pc \in {"idle", "check", "raised"}
           /\ trace = <<>>
           /\ pc = "raised" => error \in {"prompt_type", "strength", "callback_steps"}
    /\ \A p \in 1..Len(trace) :
           /\ args.cbKind = "int"
           /\ args.callback_steps >= 1
           /\ trace[p].op \in {"callback", "is_cancelled"} =>
                  trace[p].step % args.callback_steps = 0
    /\ (~args.kdiffusion /\ args.hasCancel /\ loopIdx >= 1) =>
           \E p \in Positions("is_cancelled") : trace[p].step = 0

C32_Witness ==
    /\ args.callback_steps = 2
    /\ args.hasCancel
    /\ ~args.kdiffusion
    /\ pc = "denoise"
    /\ loopIdx = 1
    /\ \E p \in Positions("is_cancelled") : trace[p].step = 0

(* C33: from the moment the block of __call__ is entered, validation not yet
   run, the pipeline's unet and vae are the versions of the inference context,
   and they stay so on every exit path: after a return, a cancellation, a
   validation failure or a collaborator's exception they have not been put
   back. A validation failure has touched nothing else: the scheduler's
   schedule is as it was, no noise has been drawn and no collaborator has
   been called. *)
C33_UnetVaeReplaced ==
    /\ pc # "idle" => (selfUnet = "inf" /\ selfVae = "inf")
    /\ pc = "check" => (trace = <<>> /\ error = "")
    /\ (pc = "raised" /\ error \in ValidationErrors) =>
           /\ schedulerTimesteps = <<>>
           /\ timesteps = <<>>
           /\ latents = NoLatent
           /\ content = NoContent
           /\ Ops(trace) \subseteq {"text_encoder"}
           /\ error # "batch_size_mismatch" => trace = <<>>

C33_Witness ==
    /\ pc = "raised"
    /\ error = "strength"
    /\ selfUnet = "inf"
    /\ selfVae = "inf"
    /\ schedulerTimesteps = <<>>
    /\ ~ctxHeld

\* A step that handles a request to `route`
Handles(route) ==
    /\ response'.route = route
    /\ <<interrupt, jobs, response>>' # <<interrupt, jobs, response>>

(* C34: under the routes of general.py the interrupt flag never goes from true
   to false; a POST /interrupt leaves the flag true and changes nothing else of
   the server's state, the job queue included, so that a second one changes
   nothing at all but the response; a POST /queue-clear leaves the queue empty
   and the flag as it was; and the queue is changed by nothing but
   queue-clear. *)
C34_InterruptMonotone ==
    [][/\ interrupt => interrupt'
       /\ Handles("interrupt") =>
              /\ interrupt'
              /\ response' = Message("interrupt", "Interupted")
              /\ UNCHANGED <<enable_shutdown, uvicorn_server, uvicorn_loop,
                             asyncio_tasks, jobs, themes, notifications, shutdownPc,
                             effects, shutdowns, exited, callVars>>
       /\ Handles("queue-clear") =>
              /\ jobs' = <<>>
              /\ interrupt' = interrupt
       /\ jobs' # jobs => Handles("queue-clear")
       /\ interrupt' # interrupt => Handles("interrupt")]_vars

C34_Witness ==
    /\ interrupt
    /\ response.route = "queue-clear"
    /\ jobs = <<>>
    /\ shutdowns = 2
    /\ Len(notifications) = 2
    /\ ~exited

(* C35: with shutdown disabled in the configuration, whatever POST /shutdown
   requests are made, no background task is cancelled, force_exit is not set,
   the server is not shut down, the event loop is not stopped and the process
   does not exit; every such request broadcasts exactly one notification, of
   severity error, and returns the message that shutdown is disabled. *)
C35_ShutdownDisabled ==
    ~enable_shutdown =>
        /\ \A k \in 1..Len(asyncio_tasks) : asyncio_tasks[k] = "pending"
        /\ ~uvicorn_server.force_exit
        /\ ~uvicorn_server.down
        /\ ~uvicorn_loop.stopped
        /\ ~exited
        /\ shutdownPc \in {"idle", "broadcast_error"}
        /\ Len(notifications) = shutdowns
        /\ \A k \in 1..Len(notifications) :
               notifications[k] = Notification("error", "Shutdown is disabled")
        /\ shutdowns > 0 => effects = <<"broadcast_error">>
        /\ response.route = "shutdown" =>
               response = Message("shutdown", "Shutdown is disabled")

C35_Witness ==
    /\ ~enable_shutdown
    /\ uvicorn_server.exists
    /\ uvicorn_loop.exists
    /\ Len(asyncio_tasks) = 2
    /\ shutdowns = 1
    /\ shutdownPc = "idle"
    /\ response = Message("shutdown", "Shutdown is disabled")
    /\ notifications = <<Notification("error", "Shutdown is disabled")>>

\* s is an initial part of t
IsPrefix(s, t) == Len(s) <= Len(t) /\ SubSeq(t, 1, Len(s)) = s

\* What a POST /shutdown does, in order, when it runs to its end
ShutdownOrder ==
    <<"broadcast_warning">> \o [k \in 1..Len(asyncio_tasks) |-> "cancel"]
        \o <<"force_exit", "server_shutdown", "loop_stop", "exit">>

(* C36: with shutdown enabled and a server, what a POST /shutdown has done so
   far is always an initial part of: broadcast the warning, cancel every
   registered task, set force_exit, await the server's shutdown, stop the
   event loop, exit the process; so the loop is stopped only once the server's
   shutdown has completed, force_exit is set only once every task is cancelled
   and the warning broadcast, and the process has exited only after all of it.
   With shutdown enabled and no server the handler fails on its assertion
   having cancelled no task, set nothing, stopped nothing, broadcast nothing
   and not exited. *)
C36_ShutdownOrder ==
    enable_shutdown =>
        IF uvicorn_server.exists
        THEN /\ IsPrefix(effects, ShutdownOrder)
             /\ uvicorn_loop.stopped => uvicorn_server.down
             /\ uvicorn_server.down => uvicorn_server.force_exit
             /\ uvicorn_server.force_exit =>
                    /\ \A k \in 1..Len(asyncio_tasks) : asyncio_tasks[k] = "cancelled"
                    /\ notifications # <<>>
                    /\ notifications[1] = Notification("warning",
                                                       "Shutting down the server")
             /\ exited <=> uvicorn_loop.stopped
             /\ exited => effects = ShutdownOrder
             /\ (uvicorn_server.down /\ uvicorn_loop.exists) => exited
             /\ shutdownPc \in {"idle", "broadcast_warning", "server_shutdown"}
        ELSE /\ effects = <<>>
             /\ notifications = <<>>
             /\ \A k \in 1..Len(asyncio_tasks) : asyncio_tasks[k] = "pending"
             /\ ~uvicorn_server.force_exit
             /\ ~uvicorn_server.down
             /\ ~uvicorn_loop.stopped
             /\ ~exited
             /\ shutdownPc = "idle"
             /\ response.route = "shutdown" => response = AssertionFailed("shutdown")

C36_Witness ==
    /\ enable_shutdown
    /\ uvicorn_server.exists
    /\ Len(asyncio_tasks) = 2
    /\ exited
    /\ effects = <<"broadcast_warning", "cancel", "cancel", "force_exit",
                   "server_shutdown", "loop_stop", "exit">>
    /\ uvicorn_server.down
    /\ uvicorn_loop.stopped

====
